---- MODULE Spec2Model ----
(***************************************************************************)
(* Background-light estimation of the echelle reduction pipeline.          *)
(*                                                                         *)
(*   fit_background      src/edrs/echelle/background.py  (sigma-clipped    *)
(*                       polynomial fit)                                   *)
(*   correct_background  src/edrs/echelle/background.py  (node sampling,   *)
(*                       fit dispatch, diagnostics)                        *)
(*   reduce_doublefiber  src/gamse/pipelines/foces/reduce_doublefiber.py   *)
(*                       (second extraction pass: background matching)     *)
(*                                                                         *)
(* Each routine is a state machine of its own with its own specification:  *)
(* SpecFit, SpecSample, SpecCall, SpecDriver.  The variables of the other  *)
(* routines stay at their idle values.                                     *)
(***************************************************************************)
EXTENDS Integers, Sequences, FiniteSets, TLC

(***************************************************************************)
(* Bounds of the model.                                                    *)
(***************************************************************************)
MaxNodes == 8
MaxIter == 3
MaxClip == 2
MaxCallNodes == 3
MaxH == 15
MaxAper == 5
MaxStep == 2
MaxWalk == 7
MaxFrames == 3
MaxW == 24
MaxBrt == 3

\* node intensities (znodes) are drawn from this set
ZVals == {0, 1, 9, 10}

\* node intensities of the image that correct_background samples
CallZVals == {0, 1, 10, 100}

None == "None"

\* the value of `coeff` before the first fit binds it (meaningful once nfits > 0)
Unbound == [num |-> 0, den |-> 0]

\* locals of correct_background that no statement has bound yet
NoSurface == [bound |-> FALSE, kind |-> "none", coeff |-> Unbound, z |-> <<>>,
              pow10 |-> FALSE]
NoMask == [bound |-> FALSE, m |-> <<>>]
NoResidual == [bound |-> FALSE, zspace |-> "none", fitspace |-> "none"]

VARIABLES
    \* ---- fit_background ----
    znodes,           \* zfit: the node values, a sequence
    maxiter,          \* argument maxiter
    upper_clip,       \* argument upper_clip
    lower_clip,       \* argument lower_clip
    mask,             \* the local `mask`: sequence of BOOLEAN over the nodes
    new_mask,         \* the local `new_mask` of the last iteration (bound once nfits > 0)
    coeff,            \* the local `coeff` of the last fit (bound once nfits > 0)
    fit_on,           \* the mask the last least-squares fit selected (bound once nfits > 0)
    niter,            \* loop variable of `for niter in range(maxiter)`
    nfits,            \* number of polyfit2d calls made so far
    fit_pc,           \* "loop" | "break" | "returned"
    fit_ret           \* the returned (background_data, mask), once fit_pc = "returned"

VARIABLES
    \* ---- correct_background ----
    method,           \* argument method
    scale,            \* argument scale
    display,          \* argument display
    fig_file,         \* argument fig_file (None or a file name)
    reg_file,         \* argument reg_file (None or a file name)
    sampled,          \* the node values meddata[y, x] the scan collects (line 139)
    cb_pc,            \* position in correct_background
    plot,             \* the local `plot` (line 54)
    fig,              \* the local `fig`: "unbound" | "open" | "closed"
    background_data,  \* the local `background_data`, [bound, kind, coeff, pow10]
    fitmask,          \* the local `fitmask`, [bound, m]
    residual,         \* the local `residual`, [bound, zspace, fitspace]
    stdout,           \* what the call printed
    files,            \* the files the call wrote
    cb_exc,           \* the exception that ended the call, None if none
    cb_ret            \* the returned surface, once cb_pc = "returned"

VARIABLES
    \* ---- the scan of one column x in correct_background (lines 77-139) ----
    h,                \* image height, data.shape[0]
    scan_step,        \* argument scan_step
    extend,           \* argument extend
    apos,             \* position(x) of the apertures min_aper..max_aper, first channel
    nchan,            \* number of channels
    choff,            \* offset of the second channel's order centers
    xsection,         \* the local `xsection`: meddata[:, x], row y at index y + 1
    data_mask,        \* data_mask[:, x], row y at index y + 1
    mask_col,         \* mask[:, x], the flags of the input mask, row y at index y + 1
    block_mask,       \* argument block_mask
    inter_aper,       \* the local `inter_aper`
    direct,           \* inter_aper as the midpoint search left it (line 103)
    cubic,            \* the local `coeff` of line 108, as the fitted points
    ii,               \* the local `ii` of the extension walks
    new_y,            \* the local `new_y` of the extension walks
    nwalk,            \* steps the two walks have made
    ynodes,           \* the rows appended to ynodes for this column, in order
    sam_pc,           \* position in the column's scan
    sam_exc           \* the exception that ended the scan, None if none

VARIABLES
    \* ---- reduce_doublefiber, the two extraction passes (lines 1201-1895) ----
    logtable,             \* the observing log: a sequence of frames
    database,             \* the background models of the archive
    saved_bkg_lst,        \* the local `saved_bkg_lst`
    extracted_fileid_lst, \* the local `extracted_fileid_lst`
    ilog,                 \* index of the logitem the running loop is at
    ifib,                 \* index in fiberobj_lst of the fiber loop (line 1656)
    selected_bkg,         \* the local `selected_bkg`
    find_background,      \* the local `find_background`
    brt_scale,            \* the local `scale` of the second pass
    background,           \* the local `background` of the second pass
    subtracted,           \* per frame, the background line 1750 subtracted
    written,              \* fileids of the 1-D spectrum files, in writing order
    unmatched,            \* fileids for which a fiber found no model anywhere
    drv_pc,               \* position in reduce_doublefiber
    drv_exc,              \* the exception that ended the run, None if none
    lookups               \* the calls of the lookups of lines 1687 and 1693, in order

VARIABLES
    \* ---- the arrays of a call of correct_background or fit_background ----
    heap,             \* the arrays that exist, by address 1..Len(heap)
    heap0,            \* the arrays of the caller as they were at the call
    mem_entry,        \* the function the caller calls
    mem_scale,        \* argument scale of correct_background
    mem_cand,         \* the (x, y) the scan of lines 69-139 visits, in order
    cb_env,           \* the names of correct_background: address, 0 if unbound
    fb_env,           \* the names of fit_background: address, 0 if unbound
    mem_pc,           \* position in the call
    mem_exc           \* the exception that ended the call, None if none

VARIABLES
    \* ---- a call of BackgroundLight.find_brightness_scale (line 1713) ----
    obs_brt,          \* brightness of obs_bkg_obj on the apertures 1..3, 0 if absent
    sel_brt,          \* brightness of selected_bkg on the apertures 1..3, 0 if absent
    scale_out,        \* the value the call returned
    scl_pc            \* "call" | "returned"

VARIABLES
    \* ---- reduce_doublefiber, the stage 'Mosaic Flats' (lines 513-710) ----
    flat_groups,      \* per fiber, the names of its flat groups
    flat_lsts,        \* flat_data_lst ... flat_spec_lst: per list and fiber, its value
    master_aperset,   \* the fibers that master_aperset holds
    flt_ifiber,       \* the loop variable ifiber of line 524
    flt_pc,           \* position in the stage
    flt_exc           \* the exception that ended the stage, None if none

drvVars == <<logtable, database, saved_bkg_lst, extracted_fileid_lst, ilog,
             ifib, selected_bkg, find_background, brt_scale, background,
             subtracted, written, unmatched, drv_pc, drv_exc, lookups>>

VARIABLES
    \* ---- the list of scanned columns in correct_background (lines 70-74) ----
    w,                \* image width, data.shape[1]
    x_lst,            \* the local `x_lst`
    col_pc,           \* position in lines 70-77
    col_exc           \* the exception that ended the call there, None if none

colVars == <<w, x_lst, col_pc, col_exc>>

samVars == <<h, scan_step, extend, apos, nchan, choff, xsection, data_mask,
             mask_col, block_mask, inter_aper, direct, cubic, ii, new_y, nwalk, ynodes, sam_pc,
             sam_exc>>

fitVars == <<znodes, maxiter, upper_clip, lower_clip, mask, new_mask, coeff,
             fit_on, niter, nfits, fit_pc, fit_ret>>

callVars == <<method, scale, display, fig_file, reg_file, sampled, cb_pc, plot,
              fig, background_data, fitmask, residual, stdout, files, cb_exc,
              cb_ret>>

memVars == <<heap, heap0, mem_entry, mem_scale, mem_cand, cb_env, fb_env,
             mem_pc, mem_exc>>

sclVars == <<obs_brt, sel_brt, scale_out, scl_pc>>

flatVars == <<flat_groups, flat_lsts, master_aperset, flt_ifiber, flt_pc,
              flt_exc>>

extVars == <<memVars, sclVars, flatVars>>

vars == <<fitVars, callVars, samVars, drvVars, colVars, extVars>>

(***************************************************************************)
(* Helpers on sequences and masks (numpy boolean indexing).                *)
(***************************************************************************)
RECURSIVE SumSeq(_)
SumSeq(s) == IF s = <<>> THEN 0 ELSE Head(s) + SumSeq(Tail(s))

RECURSIVE SumSqSeq(_)
SumSqSeq(s) == IF s = <<>> THEN 0 ELSE Head(s) * Head(s) + SumSqSeq(Tail(s))

\* a[m] : the elements of a whose mask entry is True, in order
RECURSIVE BoolIndex(_, _)
BoolIndex(a, m) ==
    IF a = <<>> THEN <<>>
    ELSE IF Head(m) THEN <<Head(a)>> \o BoolIndex(Tail(a), Tail(m))
         ELSE BoolIndex(Tail(a), Tail(m))

\* m.sum()
MaskSum(m) == Cardinality({i \in DOMAIN m : m[i]})

\* np.ones_like(zfit, dtype=bool)
OnesLike(z) == [i \in DOMAIN z |-> TRUE]

IsNonDecreasing(s) == \A i \in 1..(Len(s) - 1) : s[i] <= s[i + 1]

\* node sets of at most MaxNodes nodes; the loop treats the nodes alike, so
\* one ordering stands for every permutation of the same values
NodeSets == UNION {{z \in [1..n -> ZVals] : IsNonDecreasing(z)} : n \in 0..MaxNodes}

(***************************************************************************)
(* polyfit2d / polyval2d for xorder = yorder = 0: the least-squares        *)
(* polynomial is the constant that minimises the squared residuals, the    *)
(* mean of the selected values, kept as the fraction num/den.  Over zero   *)
(* selected nodes every constant is a minimiser.                           *)
(***************************************************************************)
polyfit2d(zsel) ==
    IF Len(zsel) > 0
    THEN {[num |-> SumSeq(zsel), den |-> Len(zsel)]}
    ELSE {[num |-> v, den |-> 1] : v \in ZVals}

\* two coefficient vectors describe the same surface
SameSurface(a, b) == a.num * b.den = b.num * a.den

\* residuals = zfit - polyval2d(xfit, yfit, coeff), scaled by coeff.den > 0
Residuals(z, c) == [i \in DOMAIN z |-> c.den * z[i] - c.num]

\* n^2 * (variance of r over its n entries) = n*sum(r^2) - sum(r)^2  (np.std, ddof=0)
VarScaled(r) == Len(r) * SumSqSeq(r) - SumSeq(r) * SumSeq(r)

\* a/n < k * sqrt(v)/n for k >= 0, v >= 0, n > 0: the comparison
\* `residual < clip*sigma` on the scaled quantities
LessThanClipSigma(a, k, v) == IF a < 0 THEN TRUE ELSE a * a < k * k * v

(***************************************************************************)
(* fit_background, lines 342-379.                                          *)
(***************************************************************************)
\* sigma is taken over all the nodes, the rejected ones included
ClipMaskSigmaAll(z, m, c, uclip, lclip) ==
    LET r == Residuals(z, c)
        n == Len(r)
        v == VarScaled(r)
    IN  [i \in DOMAIN z |->
            /\ n > 0
            /\ LessThanClipSigma(n * r[i], uclip, v)
            /\ LessThanClipSigma(-(n * r[i]), lclip, v)]

\* lines 361-365: sigma over the accepted nodes, m1*m2 over all the nodes.
\* An empty selection gives sigma = nan, and every comparison with nan is False.
ClipMask(z, m, c, uclip, lclip) ==
    LET r == Residuals(z, c)
        racc == BoolIndex(r, m)
        n == Len(racc)
        v == VarScaled(racc)
    IN  [i \in DOMAIN z |->
            /\ n > 0
            /\ LessThanClipSigma(n * r[i], uclip, v)
            /\ LessThanClipSigma(-(n * r[i]), lclip, v)]

\* line 371: the early-stop test
EarlyStop(nm, m) == MaskSum(nm) = MaskSum(m)

\* a loop that ignores maxiter
LoopUnbounded(it, mx) == TRUE

\* line 357: for niter in range(maxiter)
LoopContinues(it, mx) == it < mx

\* correct_background is not running
CallIdle ==
    /\ method = "poly"
    /\ scale = "linear"
    /\ display = FALSE
    /\ fig_file = None
    /\ reg_file = None
    /\ sampled = <<>>
    /\ cb_pc = "idle"
    /\ plot = FALSE
    /\ fig = "unbound"
    /\ background_data = NoSurface
    /\ fitmask = NoMask
    /\ residual = NoResidual
    /\ stdout = <<>>
    /\ files = {}
    /\ cb_exc = None
    /\ cb_ret = NoSurface

\* no column is being scanned
\* a background model that is None
NoBkg == [fileid |-> 0, fiber |-> "-", objtype |-> "-", time |-> 0,
          data |-> 0, prof |-> <<0, 0, 0>>]

\* the local `scale` before line 1713 binds it, and the scale that is None
UnboundScale == [bound |-> FALSE, none |-> FALSE, num |-> 0, den |-> 1]

NoneScale == [bound |-> TRUE, none |-> TRUE, num |-> 0, den |-> 1]

ColumnsIdle ==
    /\ w = 0
    /\ x_lst = <<>>
    /\ col_pc = "idle"
    /\ col_exc = None

NoNames == [data |-> 0, mask |-> 0, data_mask |-> 0, meddata |-> 0,
            xnodes |-> 0, ynodes |-> 0, znodes |-> 0, pmask |-> 0,
            background_data |-> 0, fitmask |-> 0, residual |-> 0]

NoFitNames == [xnodes |-> 0, ynodes |-> 0, znodes |-> 0, xfit |-> 0,
               yfit |-> 0, zfit |-> 0, mask |-> 0, coeff |-> 0,
               background_data |-> 0]

MemoryIdle ==
    /\ heap = <<>>
    /\ heap0 = <<>>
    /\ mem_entry = "idle"
    /\ mem_scale = "linear"
    /\ mem_cand = <<>>
    /\ cb_env = NoNames
    /\ fb_env = NoFitNames
    /\ mem_pc = "idle"
    /\ mem_exc = None

ScaleIdle ==
    /\ obs_brt = <<>>
    /\ sel_brt = <<>>
    /\ scale_out = UnboundScale
    /\ scl_pc = "idle"

FlatsIdle ==
    /\ flat_groups = <<>>
    /\ flat_lsts = <<>>
    /\ master_aperset = {}
    /\ flt_ifiber = 0
    /\ flt_pc = "idle"
    /\ flt_exc = None

ExtIdle ==
    /\ MemoryIdle
    /\ ScaleIdle
    /\ FlatsIdle

FitIdle ==
    /\ znodes = <<>>
    /\ maxiter = 1
    /\ upper_clip = 1
    /\ lower_clip = 1
    /\ mask = <<>>
    /\ new_mask = <<>>
    /\ coeff = Unbound
    /\ fit_on = <<>>
    /\ niter = 0
    /\ nfits = 0
    /\ fit_pc = "idle"
    /\ fit_ret = [background_data |-> Unbound, mask |-> <<>>]

DriverIdle ==
    /\ logtable = <<>>
    /\ database = {}
    /\ saved_bkg_lst = <<>>
    /\ extracted_fileid_lst = <<>>
    /\ ilog = 0
    /\ ifib = 0
    /\ selected_bkg = NoBkg
    /\ find_background = FALSE
    /\ brt_scale = UnboundScale
    /\ background = [num |-> 0, den |-> 1]
    /\ subtracted = <<>>
    /\ written = <<>>
    /\ unmatched = {}
    /\ drv_pc = "idle"
    /\ drv_exc = None
    /\ lookups = <<>>

SampleIdle ==
    /\ h = 0
    /\ scan_step = 1
    /\ extend = FALSE
    /\ apos = <<>>
    /\ nchan = 1
    /\ choff = 0
    /\ xsection = <<>>
    /\ data_mask = <<>>
    /\ mask_col = <<>>
    /\ block_mask = 4
    /\ inter_aper = <<>>
    /\ direct = <<>>
    /\ cubic = <<>>
    /\ ii = 0
    /\ new_y = 0
    /\ nwalk = 0
    /\ ynodes = <<>>
    /\ sam_pc = "idle"
    /\ sam_exc = None

InitFit ==
    /\ CallIdle
    /\ DriverIdle
    /\ ColumnsIdle
    /\ ExtIdle
    /\ SampleIdle
    /\ znodes \in NodeSets
    /\ maxiter \in 1..MaxIter
    /\ upper_clip \in 1..MaxClip
    /\ lower_clip \in 1..MaxClip
    /\ mask = OnesLike(znodes)
    /\ new_mask = <<>>
    /\ coeff = Unbound
    /\ fit_on = <<>>
    /\ niter = 0
    /\ nfits = 0
    /\ fit_pc = "loop"
    /\ fit_ret = [background_data |-> Unbound, mask |-> <<>>]

\* the loop takes another round
FitIterEnabled ==
    /\ fit_pc = "loop"
    /\ LoopContinues(niter, maxiter)
    /\ polyfit2d(BoolIndex(znodes, mask)) # {}

\* the loop is over: by the break, or range(maxiter) is exhausted
FitReturnEnabled ==
    \/ fit_pc = "break"
    \/ fit_pc = "loop" /\ ~LoopContinues(niter, maxiter)

\* one round of the loop, lines 358-373
FitIter ==
    /\ FitIterEnabled
    /\ \E c \in polyfit2d(BoolIndex(znodes, mask)) :
          LET nm == ClipMask(znodes, mask, c, upper_clip, lower_clip)
          IN  /\ coeff' = c
              /\ fit_on' = mask
              /\ nfits' = nfits + 1
              /\ new_mask' = nm
              /\ IF EarlyStop(nm, mask)
                 THEN /\ fit_pc' = "break"
                      /\ UNCHANGED <<mask, niter>>
                 ELSE /\ mask' = nm
                      /\ niter' = niter + 1
                      /\ fit_pc' = "loop"
    /\ UNCHANGED <<znodes, maxiter, upper_clip, lower_clip, fit_ret>>

\* lines 375-379: evaluate the last polynomial on the grid and return
FitReturn ==
    /\ FitReturnEnabled
    /\ fit_ret' = [background_data |-> coeff, mask |-> mask]
    /\ fit_pc' = "returned"
    /\ UNCHANGED <<znodes, maxiter, upper_clip, lower_clip, mask, new_mask,
                   coeff, fit_on, niter, nfits>>

FitIterStep == FitIter /\ UNCHANGED <<callVars, samVars, drvVars, colVars, extVars>>

FitReturnStep == FitReturn /\ UNCHANGED <<callVars, samVars, drvVars, colVars, extVars>>

NextFit == FitIterStep \/ FitReturnStep

SpecFit == InitFit /\ [][NextFit]_vars

(***************************************************************************)
(* Claims on fit_background.                                               *)
(***************************************************************************)

\* C2: the returned surface is the least-squares fit on exactly the nodes
\* that are True in the returned mask, so that re-fitting on the returned
\* mask reproduces the returned surface, also when maxiter is exhausted.
C2_SurfaceFittedOnReturnedMask ==
    (fit_pc = "returned" /\ MaskSum(fit_ret.mask) > 0) =>
        \E c \in polyfit2d(BoolIndex(znodes, fit_ret.mask)) :
            SameSurface(c, fit_ret.background_data)

\* C3: when a sigma-clip accepts no node the iteration halts with the
\* previous non-empty mask: no least-squares fit runs on zero selected
\* nodes and a non-empty node set never returns an empty mask.
C3_NoFitOnEmptySelection ==
    Len(znodes) > 0 =>
        /\ (nfits > 0 => MaskSum(fit_on) > 0)
        /\ (fit_pc = "returned" => MaskSum(fit_ret.mask) > 0)

\* C4: the loop is left early (by the break) only when the new accepted
\* set has the same members as the previous accepted set.
C4_EarlyStopOnlyOnSameSet ==
    fit_pc = "break" => new_mask = mask

\* C5: from each iteration to the next the number of accepted nodes does
\* not grow, and once it stops changing the loop ends.
C5_CountNonIncreasing ==
    [][fit_pc = "loop" /\ nfits' = nfits + 1 =>
          /\ MaskSum(new_mask') <= MaskSum(mask)
          /\ (MaskSum(new_mask') = MaskSum(mask) => fit_pc' = "break")]_vars

\* C6: for every node set and maxiter >= 1 the call terminates: it makes at
\* least one and at most maxiter least-squares fits (every round makes one,
\* so the rounds are bounded), it is never stuck before the return, and it
\* returns a surface and a mask over the nodes.
C6_FitTerminates ==
    /\ nfits <= maxiter
    /\ niter <= nfits
    /\ (fit_pc # "returned" => FitIterEnabled \/ FitReturnEnabled)
    /\ (fit_pc = "returned" =>
           /\ nfits >= 1
           /\ fit_ret.background_data.den > 0
           /\ DOMAIN fit_ret.mask = DOMAIN znodes)

\* a call that used all of its maxiter > 1 rounds and returned
C6_Witness ==
    /\ fit_pc = "returned"
    /\ maxiter > 1
    /\ nfits = maxiter
    /\ Len(znodes) > 1

(***************************************************************************)
(* correct_background, lines 18-339.  The scan of lines 64-144 yields the  *)
(* node values `sampled`; SpecSample models the scan itself.               *)
(***************************************************************************)
CallNodeSets ==
    UNION {{z \in [1..n -> CallZVals] : IsNonDecreasing(z)} : n \in 0..MaxCallNodes}

\* np.log10 on the powers of ten of CallZVals
Log10(v) == CASE v = 1 -> 0 [] v = 10 -> 1 [] v = 100 -> 2

RECURSIVE MinSeq(_)
MinSeq(s) == IF Len(s) = 1 THEN Head(s)
             ELSE LET r == MinSeq(Tail(s)) IN IF Head(s) < r THEN Head(s) ELSE r

\* pmask = znodes > 0
PositiveMask(z) == [i \in DOMAIN z |-> z[i] > 0]

\* lines 150-152: znodes[~pmask] = znodes[pmask].min(); np.log10(znodes)
LogNodes(z) ==
    LET zmin == MinSeq(BoolIndex(z, PositiveMask(z)))
    IN  [i \in DOMAIN z |-> Log10(IF z[i] > 0 THEN z[i] ELSE zmin)]

Raise(exc) ==
    /\ cb_pc' = "raised"
    /\ cb_exc' = exc

InitCall ==
    /\ SampleIdle
    /\ DriverIdle
    /\ ColumnsIdle
    /\ ExtIdle
    /\ method \in {"poly", "interp", "spline"}
    /\ scale \in {"linear", "log", "sqrt"}
    /\ display \in BOOLEAN
    /\ fig_file \in {None, "bkg.png"}
    /\ reg_file \in {None, "bkg.reg"}
    /\ sampled \in CallNodeSets
    /\ cb_pc = "start"
    /\ plot = FALSE
    /\ fig = "unbound"
    /\ background_data = NoSurface
    /\ fitmask = NoMask
    /\ residual = NoResidual
    /\ stdout = <<>>
    /\ files = {}
    /\ cb_exc = None
    /\ cb_ret = NoSurface
    /\ znodes = <<>>
    /\ maxiter \in 1..MaxIter
    /\ upper_clip \in 1..MaxClip
    /\ lower_clip \in 1..MaxClip
    /\ mask = <<>>
    /\ new_mask = <<>>
    /\ coeff = Unbound
    /\ fit_on = <<>>
    /\ niter = 0
    /\ nfits = 0
    /\ fit_pc = "idle"
    /\ fit_ret = [background_data |-> Unbound, mask |-> <<>>]

\* lines 54-152: the plot flag, the nodes, the log transform of the nodes.
\* min() of an empty selection raises ValueError.
CallPrepare ==
    /\ cb_pc = "start"
    /\ plot' = (display \/ fig_file # None)
    /\ IF scale = "log"
       THEN IF MaskSum(PositiveMask(sampled)) = 0
            THEN /\ Raise("ValueError")
                 /\ UNCHANGED znodes
            ELSE /\ znodes' = LogNodes(sampled)
                 /\ cb_pc' = "figure"
                 /\ UNCHANGED cb_exc
       ELSE /\ znodes' = sampled
            /\ cb_pc' = "figure"
            /\ UNCHANGED cb_exc
    /\ UNCHANGED <<method, scale, display, fig_file, reg_file, sampled, fig,
                   background_data, fitmask, residual, stdout, files, cb_ret>>
    /\ UNCHANGED <<maxiter, upper_clip, lower_clip, mask, new_mask, coeff,
                   fit_on, niter, nfits, fit_pc, fit_ret, samVars,
                   drvVars, colVars, extVars>>

\* lines 154-197: `fig` is bound only when plot is true
CallFigure ==
    /\ cb_pc = "figure"
    /\ fig' = IF plot THEN "open" ELSE fig
    /\ cb_pc' = "dispatch"
    /\ UNCHANGED <<method, scale, display, fig_file, reg_file, sampled, plot,
                   background_data, fitmask, residual, stdout, files, cb_exc,
                   cb_ret>>
    /\ UNCHANGED <<fitVars, samVars, drvVars, colVars, extVars>>

\* lines 199-202: method 'poly' calls fit_background on the nodes
CallDispatchPoly ==
    /\ cb_pc = "dispatch"
    /\ method = "poly"
    /\ mask' = OnesLike(znodes)
    /\ niter' = 0
    /\ nfits' = 0
    /\ fit_pc' = "loop"
    /\ cb_pc' = "fit"
    /\ UNCHANGED <<method, scale, display, fig_file, reg_file, sampled, plot,
                   fig, background_data, fitmask, residual, stdout, files,
                   cb_exc, cb_ret>>
    /\ UNCHANGED <<znodes, maxiter, upper_clip, lower_clip, new_mask, coeff,
                   fit_on, fit_ret, samVars, drvVars, colVars, extVars>>

\* a round of the fit_background call
CallFitIter ==
    /\ cb_pc = "fit"
    /\ FitIter
    /\ UNCHANGED <<callVars, samVars, drvVars, colVars, extVars>>

\* the return of the fit_background call
CallFitReturn ==
    /\ cb_pc = "fit"
    /\ FitReturn
    /\ UNCHANGED <<callVars, samVars, drvVars, colVars, extVars>>

\* lines 200-202: background_data, fitmask = fit_background(...)
CallFitDone ==
    /\ cb_pc = "fit"
    /\ fit_pc = "returned"
    /\ background_data' = [bound |-> TRUE, kind |-> "poly",
                           coeff |-> fit_ret.background_data, z |-> <<>>,
                           pow10 |-> FALSE]
    /\ fitmask' = [bound |-> TRUE, m |-> fit_ret.mask]
    /\ cb_pc' = "unlog"
    /\ UNCHANGED <<method, scale, display, fig_file, reg_file, sampled, plot,
                   fig, residual, stdout, files, cb_exc, cb_ret>>
    /\ UNCHANGED <<fitVars, samVars, drvVars, colVars, extVars>>

\* lines 203-205 and 381-387: interpolate_background, the cubic interpolant
\* through the nodes, every node accepted
CallDispatchInterp ==
    /\ cb_pc = "dispatch"
    /\ method = "interp"
    /\ background_data' = [bound |-> TRUE, kind |-> "interp", coeff |-> Unbound,
                           z |-> znodes, pow10 |-> FALSE]
    /\ fitmask' = [bound |-> TRUE, m |-> OnesLike(znodes)]
    /\ cb_pc' = "unlog"
    /\ UNCHANGED <<method, scale, display, fig_file, reg_file, sampled, plot,
                   fig, residual, stdout, files, cb_exc, cb_ret>>
    /\ UNCHANGED <<fitVars, samVars, drvVars, colVars, extVars>>

\* lines 206-207: any other method prints and goes on with nothing bound
CallDispatchUnknown ==
    /\ cb_pc = "dispatch"
    /\ method \notin {"poly", "interp"}
    /\ stdout' = Append(stdout, "Unknown method")
    /\ cb_pc' = "unlog"
    /\ UNCHANGED <<method, scale, display, fig_file, reg_file, sampled, plot,
                   fig, background_data, fitmask, residual, files, cb_exc,
                   cb_ret>>
    /\ UNCHANGED <<fitVars, samVars, drvVars, colVars, extVars>>

\* lines 209-210: the surface of a log fit is mapped back through 10^x
CallUnlog ==
    /\ cb_pc = "unlog"
    /\ IF scale = "log"
       THEN IF background_data.bound
            THEN /\ background_data' = [background_data EXCEPT !.pow10 = TRUE]
                 /\ cb_pc' = "lognodes"
                 /\ UNCHANGED cb_exc
            ELSE /\ Raise("UnboundLocalError: background_data")
                 /\ UNCHANGED background_data
       ELSE /\ cb_pc' = "lognodes"
            /\ UNCHANGED <<background_data, cb_exc>>
    /\ UNCHANGED <<method, scale, display, fig_file, reg_file, sampled, plot,
                   fig, fitmask, residual, stdout, files, cb_ret>>
    /\ UNCHANGED <<fitVars, samVars, drvVars, colVars, extVars>>

\* lines 212-218: the node table of the running log, then the residuals
CallLogNodes ==
    /\ cb_pc = "lognodes"
    /\ IF fitmask.bound
       THEN /\ residual' = [bound |-> TRUE,
                            zspace |-> IF scale = "log" THEN "log10" ELSE "linear",
                            fitspace |-> IF background_data.pow10 THEN "linear"
                                         ELSE IF scale = "log" THEN "log10"
                                         ELSE "linear"]
            /\ cb_pc' = "plot"
            /\ UNCHANGED cb_exc
       ELSE /\ Raise("UnboundLocalError: fitmask")
            /\ UNCHANGED residual
    /\ UNCHANGED <<method, scale, display, fig_file, reg_file, sampled, plot,
                   fig, background_data, fitmask, stdout, files, cb_ret>>
    /\ UNCHANGED <<fitVars, samVars, drvVars, colVars, extVars>>

\* lines 220-317: drawing on the axes of `fig`, only when plot is true
CallPlot ==
    /\ cb_pc = "plot"
    /\ cb_pc' = "show"
    /\ UNCHANGED <<method, scale, display, fig_file, reg_file, sampled, plot,
                   fig, background_data, fitmask, residual, stdout, files,
                   cb_exc, cb_ret>>
    /\ UNCHANGED <<fitVars, samVars, drvVars, colVars, extVars>>

\* lines 319-322: plt.show(); fig.savefig(fig_file); plt.close(fig), the last
\* two outside `if plot:`
CallShowClose ==
    /\ cb_pc = "show"
    /\ IF fig = "unbound"
       THEN /\ Raise("UnboundLocalError: fig")
            /\ UNCHANGED <<fig, files>>
       ELSE /\ files' = IF fig_file # None THEN files \cup {fig_file} ELSE files
            /\ fig' = "closed"
            /\ cb_pc' = "return"
            /\ UNCHANGED cb_exc
    /\ UNCHANGED <<method, scale, display, fig_file, reg_file, sampled, plot,
                   background_data, fitmask, residual, stdout, cb_ret>>
    /\ UNCHANGED <<fitVars, samVars, drvVars, colVars, extVars>>

\* line 324: return background_data (lines 327-339 follow the return)
CallReturn ==
    /\ cb_pc = "return"
    /\ cb_ret' = background_data
    /\ cb_pc' = "returned"
    /\ UNCHANGED <<method, scale, display, fig_file, reg_file, sampled, plot,
                   fig, background_data, fitmask, residual, stdout, files,
                   cb_exc>>
    /\ UNCHANGED <<fitVars, samVars, drvVars, colVars, extVars>>

NextCall ==
    \/ CallPrepare
    \/ CallFigure
    \/ CallDispatchPoly
    \/ CallFitIter
    \/ CallFitReturn
    \/ CallFitDone
    \/ CallDispatchInterp
    \/ CallDispatchUnknown
    \/ CallUnlog
    \/ CallLogNodes
    \/ CallPlot
    \/ CallShowClose
    \/ CallReturn

SpecCall == InitCall /\ [][NextCall]_vars

(***************************************************************************)
(* Claims on the call of correct_background.                               *)
(***************************************************************************)
CallEnded == cb_pc \in {"returned", "raised"}

\* C7: a method other than 'poly' or 'interp' is reported and the call ends
\* without a surface and without an unhandled exception: no later statement
\* of the call uses the fit result that was never bound.
C7_UnknownMethodEndsCall ==
    (method \notin {"poly", "interp"} /\ CallEnded /\ cb_exc # "ValueError") =>
        /\ cb_exc = None
        /\ ~cb_ret.bound
        /\ stdout = <<"Unknown method">>

\* C10: diagnostics do not affect the result: once the fit has bound the
\* surface, the call completes and returns that surface whatever display and
\* fig_file are, display = False with fig_file = None included.
C10_DiagnosticsDoNotAffectResult ==
    (CallEnded /\ background_data.bound /\ fitmask.bound) =>
        /\ cb_pc = "returned"
        /\ cb_ret = background_data

\* C18: with scale = 'log' the residuals of the nodes are differences of two
\* quantities in the same log10 space, node value minus fitted value, while
\* the returned surface is the fit mapped back through 10^x.
C18_LogResidualsInFitSpace ==
    /\ (scale = "log" /\ residual.bound) =>
           /\ residual.zspace = "log10"
           /\ residual.fitspace = "log10"
    /\ (scale = "log" /\ cb_pc = "returned") => cb_ret.pow10

\* C19: a scale other than 'linear' and 'log' is reported as a configuration
\* error and the call produces no fit: it is not treated as linear.
C19_UnknownScaleRejected ==
    (scale \notin {"linear", "log"} /\ cb_pc \notin {"start", "figure"}) =>
        /\ ~background_data.bound
        /\ nfits = 0
        /\ CallEnded => (cb_exc # None \/ Len(stdout) > 0)

\* C20: a call with reg_file given that completes has written the region
\* file of the nodes to reg_file.
C20_RegionFileWritten ==
    (reg_file # None /\ cb_pc = "returned") => reg_file \in files


(***************************************************************************)
(* The scan of one column in correct_background (lines 77-139).            *)
(***************************************************************************)

\* gaps between the centers of consecutive orders in the scanned column
GapVals == {1, 4, 8}

\* rows of the first order's center
FirstRows == {0, 1}

Abs(a) == IF a < 0 THEN -a ELSE a

Min2(a, b) == IF a < b THEN a ELSE b

Max2(a, b) == IF a > b THEN a ELSE b

RECURSIVE GCD(_, _)
GCD(a, b) == IF b = 0 THEN a ELSE GCD(b, a % b)

LCM(a, b) == (a * b) \div GCD(a, b)

\* a (a - 1) ... (a - m + 1)
RECURSIVE Fall(_, _)
Fall(a, m) == IF m = 0 THEN 1 ELSE (a - m + 1) * Fall(a, m - 1)

Binom(n, k) == Fall(n, k) \div Fall(k, k)

\* centers of the orders: the first at row p0, the next ones gaps[k] rows apart
Centers(p0, gaps) ==
    [k \in 1..(Len(gaps) + 1) |-> p0 + SumSeq(SubSeq(gaps, 1, k - 1))]

AperSets ==
    LET gapseqs == UNION {[1..n -> GapVals] : n \in 0..(MaxAper - 1)}
        layouts == {pg \in FirstRows \X gapseqs :
                       pg[1] + SumSeq(pg[2]) <= MaxH - 1}
    IN  {Centers(pg[1], pg[2]) : pg \in layouts}

\* column profiles of the median-filtered image
Rising(hh) == [y \in 1..hh |-> y]

Falling(hh) == [y \in 1..hh |-> hh - y]

\* xsection[i1:i2]
Slice(xs, i1, i2) == SubSeq(xs, i1 + 1, i2)

\* numpy argmin: the index, counted from 0, of the first minimum
ArgMin(s) ==
    CHOOSE i \in 0..(Len(s) - 1) :
        /\ \A j \in 1..Len(s) : s[i + 1] <= s[j]
        /\ \A j \in 1..i : s[j] > s[i + 1]

\* prev_newy when aperture k is reached: position of the last channel of
\* aperture k - 1 (line 101)
PrevNewy(pos, nch, off, k) == IF nch = 1 THEN pos[k - 1] ELSE pos[k - 1] + off

\* abs(mid_newy - inter_aper[-1]) > scan_step*0.6 (line 97)
FarEnough(mid, last, step) == 10 * Abs(mid - last) > 6 * step

\* the loop over the apertures (lines 82-101), from aperture k on; acc is
\* inter_aper so far
RECURSIVE MidpointSearch(_, _, _, _, _, _, _, _)
MidpointSearch(pos, nch, off, xs, hh, step, k, acc) ==
    IF k > Len(pos) THEN acc
    ELSE LET prev_newy == PrevNewy(pos, nch, off, k)
             this_newy == pos[k]
             mid_newy == (prev_newy + this_newy) \div 2
             i1 == Min2(hh - 1, Max2(0, prev_newy))
             i2 == Min2(hh - 1, Max2(0, this_newy))
             take == /\ (Len(acc) = 0 \/ FarEnough(mid_newy, acc[Len(acc)], step))
                     /\ i2 - i1 > 0
         IN  MidpointSearch(pos, nch, off, xs, hh, step, k + 1,
                 IF take THEN Append(acc, i1 + ArgMin(Slice(xs, i1, i2)))
                 ELSE acc)

(***************************************************************************)
(* np.polyfit(np.arange(n), y, deg=3) followed by np.polyval(coeff, t), as *)
(* the exact rational value [num, den] with den > 0.                       *)
(*   n >= 4: the least-squares cubic, expanded in the discrete orthogonal  *)
(*           (Gram) polynomials of the abscissae 0..n-1;                   *)
(*   n = 3, 2: the system is rank deficient and lstsq returns the          *)
(*           minimum-norm solution in the column-scaled coefficients.      *)
(***************************************************************************)
Gram(k, n, t) ==
    SumSeq([j1 \in 1..(k + 1) |->
        LET j == j1 - 1
        IN  (IF j % 2 = 0 THEN 1 ELSE -1) * Binom(k, j) * Binom(k + j, j)
            * Fall(t, j) * Fall(n - 1 - j, k - j)])

RECURSIVE GCDSeq(_)
GCDSeq(s) == IF Len(s) = 0 THEN 0 ELSE GCD(Abs(Head(s)), GCDSeq(Tail(s)))

\* content of the Gram polynomials of degree 0..3 over the abscissae 0..n-1
GramContent(n) ==
    [k1 \in 1..4 |-> GCDSeq([i \in 1..n |-> Gram(k1 - 1, n, i - 1)])]

\* the primitive Gram polynomials of degree 0..3 at t, cont their content
GramRow(n, cont, t) == [k1 \in 1..4 |-> Gram(k1 - 1, n, t) \div cont[k1]]

\* the projection of y on the primitive Gram polynomials, whose values at
\* the abscissae are atx[i] and at the evaluation point att
GramProjection(y, atx, att) ==
    LET n == Len(y)
        nrm == [k1 \in 1..4 |-> SumSeq([i \in 1..n |-> atx[i][k1] * atx[i][k1]])]
        den == LCM(LCM(nrm[1], nrm[2]), LCM(nrm[3], nrm[4]))
        proj == [k1 \in 1..4 |-> SumSeq([i \in 1..n |-> y[i] * atx[i][k1]])]
    IN  [num |-> SumSeq([k1 \in 1..4 |->
                     proj[k1] * att[k1] * (den \div nrm[k1])]),
         den |-> den]

LeastSquaresCubic(y, t) ==
    LET n == Len(y)
        fitted(cont) ==
            {GramProjection(y, atx, att) :
                 atx \in {[i \in 1..n |-> GramRow(n, cont, i - 1)]},
                 att \in {GramRow(n, cont, t)}}
    IN  CHOOSE v \in UNION {fitted(cont) : cont \in {GramContent(n)}} : TRUE

MinNormCubic3(y, t) ==
    [num |-> 476 * y[1]
             + 238 * (4 * y[2] - 3 * y[1] - y[3]) * t
             + 238 * (y[1] - 2 * y[2] + y[3]) * t * t
             + (81 * y[1] - 142 * y[2] + 61 * y[3])
               * (t * t * t - 3 * t * t + 2 * t),
     den |-> 476]

MinNormCubic2(y, t) ==
    [num |-> 3 * y[1] + (y[2] - y[1]) * (t * t * t + t * t + t), den |-> 3]

PolyfitPolyval(y, t) ==
    IF Len(y) >= 4 THEN LeastSquaresCubic(y, t)
    ELSE IF Len(y) = 3 THEN MinNormCubic3(y, t)
    ELSE MinNormCubic2(y, t)

\* int(v) of the float that approximates the rational v: truncation toward
\* zero; where v is an integer the float may fall on either side of it
IntOf(v) ==
    LET q == IF v.num >= 0 THEN v.num \div v.den ELSE -((-v.num) \div v.den)
    IN  IF v.num % v.den # 0 THEN {q}
        ELSE IF q > 0 THEN {q, q - 1}
        ELSE IF q < 0 THEN {q, q + 1}
        ELSE {q}

\* int(np.polyval(coeff, t)) for the cubic fitted to the rows y
WalkRow(y, t) == UNION {IntOf(v) : v \in {PolyfitPolyval(y, t)}}

\* a range filter that keeps every row
KeepAllRows(s, hh) == s

\* lines 125-127
RangeFilter(s, hh) == SelectSeq(s, LAMBDA y : y > 0 /\ y < hh - 1)

RECURSIVE KeepWhere(_, _, _)
KeepWhere(s, keep, i) ==
    IF i > Len(s) THEN <<>>
    ELSE (IF keep[i] THEN <<s[i]>> ELSE <<>>) \o KeepWhere(s, keep, i + 1)

\* lines 130-132: tmp = insert(inter_aper, 0, 0); mask = diff(tmp) > 0
BackwardFilter(s) ==
    LET tmp == <<0>> \o s
        msk == [i \in 1..Len(s) |-> tmp[i + 1] - tmp[i] > 0]
    IN  KeepWhere(s, msk, 1)

\* data_mask[y, x] is defined for the rows -h..h-1; a negative row counts
\* from the end of the column, any other row raises IndexError
RowIndexable(y, hh) == y >= -hh /\ y <= hh - 1

RowIndexed(y, hh) == IF y < 0 THEN hh + y ELSE y

\* lines 134-139: the rows of the unmasked pixels
EmitRows(s, dm) ==
    KeepWhere(s, [i \in 1..Len(s) |-> ~dm[RowIndexed(s[i], Len(dm)) + 1]], 1)

IsStrictlyIncreasing(s) == \A i \in 1..(Len(s) - 1) : s[i] < s[i + 1]

\* np.int16(v): v wrapped to 16 bits, two's complement
Int16(v) == ((v + 32768) % 65536) - 32768

\* a & b on numbers that are not negative
RECURSIVE BitAnd(_, _)
BitAnd(a, b) ==
    IF a = 0 \/ b = 0 THEN 0
    ELSE (a % 2) * (b % 2) + 2 * BitAnd(a \div 2, b \div 2)

\* a & b for a 16-bit a and a block value b in 0..32767: the sign bit of a
\* meets a zero bit of b
And16(a, b) == BitAnd(IF a < 0 THEN a + 65536 ELSE a, b)

\* line 60: data_mask = (np.int16(mask) & block_mask > 0)
DataMask(m, blk) == [y \in 1..Len(m) |-> And16(Int16(m[y]), blk) > 0]

\* flags of the input mask (lines 390-392 of reduce_doublefiber.py):
\* 4 = saturated, 2 = bad pixel
ClearColumn == [y \in 1..MaxH |-> 0]

FlaggedColumn == [y \in 1..MaxH |-> IF y % 2 = 0 THEN 4 ELSE 2]

\* the mask column with the block value of the call
MaskInputs == {<<ClearColumn, 4>>, <<FlaggedColumn, 4>>, <<FlaggedColumn, 6>>}

InitSample ==
    /\ CallIdle
    /\ DriverIdle
    /\ ColumnsIdle
    /\ ExtIdle
    /\ znodes = <<>>
    /\ maxiter = 1
    /\ upper_clip = 1
    /\ lower_clip = 1
    /\ mask = <<>>
    /\ new_mask = <<>>
    /\ coeff = Unbound
    /\ fit_on = <<>>
    /\ niter = 0
    /\ nfits = 0
    /\ fit_pc = "idle"
    /\ fit_ret = [background_data |-> Unbound, mask |-> <<>>]
    /\ h = MaxH
    /\ scan_step \in 1..MaxStep
    /\ extend \in BOOLEAN
    /\ apos \in AperSets
    /\ \E c \in {<<1, 0>>, <<2, 1>>} : nchan = c[1] /\ choff = c[2]
    /\ xsection \in {Rising(MaxH), Falling(MaxH)}
    /\ \E mb \in MaskInputs :
           /\ mask_col = mb[1]
           /\ block_mask = mb[2]
           /\ data_mask = DataMask(mb[1], mb[2])
    /\ inter_aper = <<>>
    /\ direct = <<>>
    /\ cubic = <<>>
    /\ ii = 0
    /\ new_y = 0
    /\ nwalk = 0
    /\ ynodes = <<>>
    /\ sam_pc = "start"
    /\ sam_exc = None

\* lines 78-103: the midpoint search of the column
SamMidpoints ==
    /\ sam_pc = "start"
    /\ LET found == MidpointSearch(apos, nchan, choff, xsection, h, scan_step,
                                   2, <<>>)
       IN  /\ inter_aper' = found
           /\ direct' = found
    /\ sam_pc' = IF extend THEN "polyfit" ELSE "filter"
    /\ UNCHANGED <<h, scan_step, extend, apos, nchan, choff, xsection,
                   data_mask, mask_col, block_mask, cubic, ii, new_y, nwalk, ynodes, sam_exc>>
    /\ UNCHANGED <<fitVars, callVars, drvVars, colVars, extVars>>

\* line 108 on no midpoint: np.polyfit raises TypeError on an empty vector;
\* on one midpoint the scaled design matrix holds nan and either lstsq raises
\* or int(nan) raises at line 114
SamPolyfitRaise ==
    /\ sam_pc = "polyfit"
    /\ Len(inter_aper) < 2
    /\ sam_exc' \in IF Len(inter_aper) = 0 THEN {"TypeError"}
                    ELSE {"LinAlgError", "ValueError"}
    /\ sam_pc' = "raised"
    /\ UNCHANGED <<h, scan_step, extend, apos, nchan, choff, xsection,
                   data_mask, mask_col, block_mask, inter_aper, direct, cubic, ii, new_y, nwalk,
                   ynodes>>
    /\ UNCHANGED <<fitVars, callVars, drvVars, colVars, extVars>>

\* lines 108-111
SamPolyfit ==
    /\ sam_pc = "polyfit"
    /\ Len(inter_aper) >= 2
    /\ cubic' = inter_aper
    /\ ii' = Len(inter_aper) - 1
    /\ new_y' = inter_aper[Len(inter_aper)]
    /\ sam_pc' = "forward"
    /\ UNCHANGED <<h, scan_step, extend, apos, nchan, choff, xsection,
                   data_mask, mask_col, block_mask, inter_aper, direct, nwalk, ynodes, sam_exc>>
    /\ UNCHANGED <<fitVars, callVars, drvVars, colVars, extVars>>

\* lines 112-115: one round of the forward walk
SamForward ==
    /\ sam_pc = "forward"
    /\ new_y < h - 1
    /\ nwalk < MaxWalk
    /\ \E v \in WalkRow(cubic, ii + 1) :
           /\ new_y' = v
           /\ inter_aper' = Append(inter_aper, v)
    /\ ii' = ii + 1
    /\ nwalk' = nwalk + 1
    /\ UNCHANGED <<h, scan_step, extend, apos, nchan, choff, xsection,
                   data_mask, mask_col, block_mask, direct, cubic, ynodes, sam_pc, sam_exc>>
    /\ UNCHANGED <<fitVars, callVars, drvVars, colVars, extVars>>

\* lines 112, 117-118: the forward walk ends
SamForwardDone ==
    /\ sam_pc = "forward"
    /\ ~(new_y < h - 1)
    /\ ii' = 0
    /\ new_y' = inter_aper[1]
    /\ sam_pc' = "backward"
    /\ UNCHANGED <<h, scan_step, extend, apos, nchan, choff, xsection,
                   data_mask, mask_col, block_mask, inter_aper, direct, cubic, nwalk, ynodes,
                   sam_exc>>
    /\ UNCHANGED <<fitVars, callVars, drvVars, colVars, extVars>>

\* lines 119-122: one round of the backward walk
SamBackward ==
    /\ sam_pc = "backward"
    /\ new_y > 0
    /\ nwalk < MaxWalk
    /\ \E v \in WalkRow(cubic, ii - 1) :
           /\ new_y' = v
           /\ inter_aper' = <<v>> \o inter_aper
    /\ ii' = ii - 1
    /\ nwalk' = nwalk + 1
    /\ UNCHANGED <<h, scan_step, extend, apos, nchan, choff, xsection,
                   data_mask, mask_col, block_mask, direct, cubic, ynodes, sam_pc, sam_exc>>
    /\ UNCHANGED <<fitVars, callVars, drvVars, colVars, extVars>>

\* line 119: the backward walk ends
SamBackwardDone ==
    /\ sam_pc = "backward"
    /\ ~(new_y > 0)
    /\ sam_pc' = "filter"
    /\ UNCHANGED <<h, scan_step, extend, apos, nchan, choff, xsection,
                   data_mask, mask_col, block_mask, inter_aper, direct, cubic, ii, new_y, nwalk,
                   ynodes, sam_exc>>
    /\ UNCHANGED <<fitVars, callVars, drvVars, colVars, extVars>>

\* lines 124-132: the range filter and the 'remove backward points' filter
SamFilter ==
    /\ sam_pc = "filter"
    /\ inter_aper' = BackwardFilter(RangeFilter(inter_aper, h))
    /\ sam_pc' = "emit"
    /\ UNCHANGED <<h, scan_step, extend, apos, nchan, choff, xsection,
                   data_mask, mask_col, block_mask, direct, cubic, ii, new_y, nwalk, ynodes,
                   sam_exc>>
    /\ UNCHANGED <<fitVars, callVars, drvVars, colVars, extVars>>

\* lines 134-139: the nodes of the column; line 136 raises IndexError on a
\* row outside the column
SamEmit ==
    /\ sam_pc = "emit"
    /\ IF \A i \in 1..Len(inter_aper) : RowIndexable(inter_aper[i], h)
       THEN /\ ynodes' = EmitRows(inter_aper, data_mask)
            /\ sam_pc' = "done"
            /\ UNCHANGED sam_exc
       ELSE /\ sam_pc' = "raised"
            /\ sam_exc' = "IndexError"
            /\ UNCHANGED ynodes
    /\ UNCHANGED <<h, scan_step, extend, apos, nchan, choff, xsection,
                   data_mask, mask_col, block_mask, inter_aper, direct,
                   cubic, ii, new_y, nwalk>>
    /\ UNCHANGED <<fitVars, callVars, drvVars, colVars, extVars>>

NextSample ==
    \/ SamMidpoints
    \/ SamPolyfitRaise
    \/ SamPolyfit
    \/ SamForward
    \/ SamForwardDone
    \/ SamBackward
    \/ SamBackwardDone
    \/ SamFilter
    \/ SamEmit

SpecSample == InitSample /\ [][NextSample]_vars

(***************************************************************************)
(* Claims on the scan of a column.                                         *)
(***************************************************************************)

\* C1: the rows of the nodes emitted for a scanned column are strictly
\* increasing in emission order, after the 'remove backward points' filter
\* and the masked-pixel drop.
C1_EmittedRowsStrictlyIncreasing ==
    sam_pc = "done" => IsStrictlyIncreasing(ynodes)

\* C11: with extend enabled, a column with fewer than 4 midpoints (none
\* included) gets no extension fit: the scan does not raise, fits no cubic,
\* walks no step, and emits exactly the directly found nodes.
C11_FewMidpointsSkipExtension ==
    (extend /\ sam_pc # "start" /\ Len(direct) < 4) =>
        /\ sam_exc = None
        /\ cubic = <<>>
        /\ nwalk = 0
        /\ sam_pc = "done" =>
               ynodes = EmitRows(BackwardFilter(RangeFilter(direct, h)),
                                 data_mask)


\* From step t on the forward walk (lines 112-115) never ends: the cubic
\* fitted to y is below h - 1 at t and its first, second and third forward
\* differences at t are not positive, so it never rises again
ForwardNeverExits(y, t, hh) ==
    \E p \in {[k \in 0..3 |-> PolyfitPolyval(y, t + k)]} :
        /\ p[0].num < (hh - 1) * p[0].den
        /\ p[1].num - p[0].num <= 0
        /\ p[2].num - 2 * p[1].num + p[0].num <= 0
        /\ p[3].num - 3 * p[2].num + 3 * p[1].num - p[0].num <= 0

\* From step t down the backward walk (lines 119-122) never ends: the cubic
\* is above 1 at t and its differences toward smaller t are not negative
BackwardNeverExits(y, t) ==
    \E p \in {[k \in 0..3 |-> PolyfitPolyval(y, t - k)]} :
        /\ p[0].num > p[0].den
        /\ p[1].num - p[0].num >= 0
        /\ p[2].num - 2 * p[1].num + p[0].num >= 0
        /\ p[3].num - 3 * p[2].num + 3 * p[1].num - p[0].num >= 0

\* C12: both extension walks terminate: the forward walk is never at a step
\* from which the fitted cubic predicts rows below h - 1 forever, and the
\* backward walk is never at a step from which it predicts rows above 0
\* forever.
C12_WalksTerminate ==
    /\ (sam_pc = "forward" /\ new_y < h - 1) =>
           ~ForwardNeverExits(cubic, ii + 1, h)
    /\ (sam_pc = "backward" /\ new_y > 0) =>
           ~BackwardNeverExits(cubic, ii - 1)


\* C13: two consecutively accepted midpoints of a column, before the
\* extension, have rows that differ by more than 0.6 * scan_step.
C13_AcceptedMidpointsSpaced ==
    sam_pc # "start" =>
        \A i \in 1..(Len(direct) - 1) :
            FarEnough(direct[i + 1], direct[i], scan_step)

\* the loop of lines 82-101 once more, keeping for every accepted midpoint
\* the two order centers (prev_newy, this_newy) it was searched between;
\* acc is inter_aper so far, org the centers of its elements
RECURSIVE MidpointCenters(_, _, _, _, _, _, _, _, _)
MidpointCenters(pos, nch, off, xs, hh, step, k, acc, org) ==
    IF k > Len(pos) THEN org
    ELSE LET prev_newy == PrevNewy(pos, nch, off, k)
             this_newy == pos[k]
             mid_newy == (prev_newy + this_newy) \div 2
             i1 == Min2(hh - 1, Max2(0, prev_newy))
             i2 == Min2(hh - 1, Max2(0, this_newy))
             take == /\ (Len(acc) = 0 \/ FarEnough(mid_newy, acc[Len(acc)], step))
                     /\ i2 - i1 > 0
         IN  IF take
             THEN MidpointCenters(pos, nch, off, xs, hh, step, k + 1,
                      Append(acc, i1 + ArgMin(Slice(xs, i1, i2))),
                      Append(org, [prev |-> prev_newy, next |-> this_newy]))
             ELSE MidpointCenters(pos, nch, off, xs, hh, step, k + 1, acc, org)

\* C14: every directly found node lies strictly between the two consecutive
\* order centers that produced it, and is never the row of a center itself.
C14_MidpointStrictlyBetweenCenters ==
    sam_pc # "start" =>
        \E org \in {MidpointCenters(apos, nchan, choff, xsection, h,
                                    scan_step, 2, <<>>, <<>>)} :
            /\ Len(org) = Len(direct)
            /\ \A i \in 1..Len(direct) :
                   org[i].prev < direct[i] /\ direct[i] < org[i].next


\* C15: no emitted node lies on a pixel that the input mask marks as bad:
\* the mask carries no saturated and no bad-pixel flag at the row of an
\* emitted node, whatever block_mask is.
C15_NoNodeOnFlaggedPixel ==
    sam_pc = "done" =>
        \A i \in 1..Len(ynodes) : mask_col[ynodes[i] + 1] = 0


Arange(lo, hi, step) ==
    [i \in 1..(IF hi > lo THEN (hi - lo + step - 1) \div step ELSE 0) |->
        lo + (i - 1) * step]

InitColumns ==
    /\ CallIdle
    /\ ExtIdle
    /\ DriverIdle
    /\ znodes = <<>>
    /\ maxiter = 1
    /\ upper_clip = 1
    /\ lower_clip = 1
    /\ mask = <<>>
    /\ new_mask = <<>>
    /\ coeff = Unbound
    /\ fit_on = <<>>
    /\ niter = 0
    /\ nfits = 0
    /\ fit_pc = "idle"
    /\ fit_ret = [background_data |-> Unbound, mask |-> <<>>]
    /\ h = 0
    /\ scan_step \in 1..MaxStep
    /\ extend = FALSE
    /\ apos = <<>>
    /\ nchan = 1
    /\ choff = 0
    /\ xsection = <<>>
    /\ data_mask = <<>>
    /\ mask_col = <<>>
    /\ block_mask = 4
    /\ inter_aper = <<>>
    /\ direct = <<>>
    /\ cubic = <<>>
    /\ ii = 0
    /\ new_y = 0
    /\ nwalk = 0
    /\ ynodes = <<>>
    /\ sam_pc = "idle"
    /\ sam_exc = None
    /\ w \in 1..MaxW
    /\ x_lst = <<>>
    /\ col_pc = "arange"
    /\ col_exc = None

\* line 71
ColArange ==
    /\ col_pc = "arange"
    /\ x_lst' = Arange(0, w - 1, scan_step)
    /\ col_pc' = "last"
    /\ UNCHANGED <<w, col_exc>>
    /\ UNCHANGED <<fitVars, callVars, samVars, drvVars, extVars>>

\* lines 73-74: x_lst[-1] raises IndexError on an empty list
ColLast ==
    /\ col_pc = "last"
    /\ IF Len(x_lst) = 0
       THEN /\ col_pc' = "raised"
            /\ col_exc' = "IndexError"
            /\ UNCHANGED x_lst
       ELSE /\ x_lst' = IF x_lst[Len(x_lst)] # w - 1
                        THEN Append(x_lst, w - 1) ELSE x_lst
            /\ col_pc' = "scan"
            /\ UNCHANGED col_exc
    /\ UNCHANGED w
    /\ UNCHANGED <<fitVars, callVars, samVars, drvVars, extVars>>

NextColumns ==
    \/ ColArange
    \/ ColLast

SpecColumns == InitColumns /\ [][NextColumns]_vars

\* C17: for any width w >= 1 and any scan_step >= 1 the scanned columns are
\* exactly the multiples of scan_step below w - 1 followed by w - 1: the list
\* is strictly increasing and holds w - 1 once, as its last element.
C17_ScannedColumns ==
    col_pc \in {"scan", "raised"} =>
        /\ col_exc = None
        /\ Len(x_lst) >= 1
        /\ x_lst[Len(x_lst)] = w - 1
        /\ IsStrictlyIncreasing(x_lst)
        /\ \A x \in 0..(w - 2) :
               (x % scan_step = 0) <=> (\E i \in 1..(Len(x_lst) - 1) : x_lst[i] = x)


(***************************************************************************)
(* reduce_doublefiber: the extraction of the single-object frames (lines   *)
(* 1201-1497) and of the other frames (lines 1501-1895).                   *)
(***************************************************************************)

\* brightness profiles over the apertures 1..3: the brightness of each
\* aperture, 0 where the profile does not hold the aperture
ProfVals == {<<1, 2, 0>>, <<2, 4, 0>>, <<0, 0, 1>>}

\* the object strings of the log, split at the delimiter, with the image type
FrameKinds ==
    {[objects |-> <<"Bias">>, imgtype |-> "cal"],
     [objects |-> <<"ThArNe", "">>, imgtype |-> "cal"],
     [objects |-> <<"HD1", "">>, imgtype |-> "sci"],
     [objects |-> <<"", "Comb">>, imgtype |-> "cal"],
     [objects |-> <<"HD1", "Comb">>, imgtype |-> "sci"],
     [objects |-> <<"Comb", "Comb">>, imgtype |-> "cal"],
     [objects |-> <<"HD1", "ThArNe">>, imgtype |-> "cal"]}

\* frames whose brightness profile is never read
NoProfile(kind) == kind.objects \in {<<"Bias">>, <<"ThArNe", "">>, <<"HD1", "ThArNe">>}

\* frame i of the log: its fileid and its time of observation are i
LogTables ==
    LET items == {kp \in FrameKinds \X ProfVals :
                      NoProfile(kp[1]) => kp[2] = <<0, 0, 1>>}
        logs == UNION {[1..n -> items] : n \in 1..MaxFrames}
    IN  {[i \in 1..Len(lg) |->
             [fileid |-> i, imgtype |-> lg[i][1].imgtype,
              objects |-> lg[i][1].objects, time |-> i,
              prof |-> lg[i][2]]] : lg \in logs}

\* the archive of background models
Databases ==
    {{},
     {[fileid |-> 101, fiber |-> "A", objtype |-> "star", time |-> 0,
       data |-> 7, prof |-> <<1, 2, 0>>],
      [fileid |-> 102, fiber |-> "B", objtype |-> "comb", time |-> 0,
       data |-> 9, prof |-> <<1, 2, 0>>]}}

\* str.lower() on the object names of the log
Lower(name) ==
    CASE name = "HD1" -> "hd1"
      [] name = "Comb" -> "comb"
      [] name = "ThArNe" -> "tharne"
      [] name = "Bias" -> "bias"
      [] OTHER -> name

\* objname.lower()[0:4]
Lower4(name) == IF Lower(name) = "tharne" THEN "thar" ELSE Lower(name)

\* get_fiberobj_lst (lines 42-55): the (ifiber, objname) of the non-empty names
get_fiberobj_lst(objects) ==
    SelectSeq([i \in 1..Len(objects) |->
                  [ifiber |-> i - 1, objname |-> objects[i]]],
              LAMBDA v : v.objname # "")

\* chr(ifiber + 65)
FiberName(ifiber) == IF ifiber = 0 THEN "A" ELSE "B"

\* every object is taken for a star
ObjTypeStar(objname) == "star"

\* lines 1349-1352 and 1681-1684
ObjType(objname) ==
    IF Lower(objname) \in {"comb", "fp"} THEN Lower(objname) ELSE "star"

\* the filter of line 1236 knows the flats only
FirstPassSkipsFlatOnly(item) ==
    IF Len(item.objects) = 1 /\ Lower(item.objects[1]) \in {"bias", "dark"}
    THEN TRUE
    ELSE IF Len(get_fiberobj_lst(item.objects)) # 1 THEN TRUE
    ELSE Lower4(get_fiberobj_lst(item.objects)[1].objname) \in {"flat"}

\* lines 1222, 1230, 1236: the frames the first pass leaves out
FirstPassSkips(item) ==
    IF Len(item.objects) = 1 /\ Lower(item.objects[1]) \in {"bias", "dark"}
    THEN TRUE
    ELSE IF Len(get_fiberobj_lst(item.objects)) # 1 THEN TRUE
    ELSE Lower4(get_fiberobj_lst(item.objects)[1].objname) \in {"flat", "thar"}

\* the second pass without the test of line 1514
SecondPassSkipsByType(item, extracted) ==
    IF item.imgtype = "sci" THEN FALSE
    ELSE IF Len(get_fiberobj_lst(item.objects)) # 2 THEN TRUE
    ELSE {Lower(get_fiberobj_lst(item.objects)[k].objname) : k \in 1..2}
             # {"comb"}

\* lines 1514, 1521-1530: the frames the second pass leaves out
SecondPassSkips(item, extracted) ==
    IF item.fileid \in {extracted[k] : k \in 1..Len(extracted)} THEN TRUE
    ELSE IF item.imgtype = "sci" THEN FALSE
    ELSE IF Len(get_fiberobj_lst(item.objects)) # 2 THEN TRUE
    ELSE {Lower(get_fiberobj_lst(item.objects)[k].objname) : k \in 1..2}
             # {"comb"}

\* lines 1354-1371: the background model of a single-object frame; its map
\* is written as the level 10 * fileid
BackgroundLight(item) ==
    LET fo == get_fiberobj_lst(item.objects)[1]
    IN  [fileid |-> item.fileid, fiber |-> FiberName(fo.ifiber),
         objtype |-> ObjType(fo.objname), time |-> item.time,
         data |-> 10 * item.fileid, prof |-> item.prof]

RangeOf(s) == {s[i] : i \in 1..Len(s)}

\* find_best_background: the models of the same fiber and object type that
\* are closest in time to the frame; {NoBkg} when there is none
find_best_background(saved, fiber, objtype, time) ==
    LET cand == {m \in RangeOf(saved) : m.fiber = fiber /\ m.objtype = objtype}
        best == {m \in cand : \A o \in cand : Abs(m.time - time) <= Abs(o.time - time)}
    IN  IF cand = {} THEN {NoBkg} ELSE best

\* select_background_from_database: the archived models of the same fiber
\* and object type; {NoBkg} when there is none
select_background_from_database(db, fiber, objtype) ==
    LET cand == {m \in db : m.fiber = fiber /\ m.objtype = objtype}
    IN  IF cand = {} THEN {NoBkg} ELSE cand

\* the sum of the candidate's squares runs over every aperture it holds
find_brightness_scale_all(obs, cand) ==
    LET common == {a \in 1..3 : obs[a] > 0 /\ cand[a] > 0}
        prod == [a \in 1..3 |-> obs[a] * cand[a]]
        sq == [a \in 1..3 |-> cand[a] * cand[a]]
    IN  IF Cardinality(common) < 2 THEN NoneScale
        ELSE [bound |-> TRUE, none |-> FALSE, num |-> SumSeq(prod),
              den |-> SumSeq(sq)]

\* find_brightness_scale: the least-squares factor over the apertures both
\* profiles hold; None when fewer than 2 apertures are shared
find_brightness_scale(obs, cand) ==
    LET common == {a \in 1..3 : obs[a] > 0 /\ cand[a] > 0}
        prod == [a \in 1..3 |-> IF a \in common THEN obs[a] * cand[a] ELSE 0]
        sq == [a \in 1..3 |-> IF a \in common THEN cand[a] * cand[a] ELSE 0]
    IN  IF Cardinality(common) < 2 THEN NoneScale
        ELSE [bound |-> TRUE, none |-> FALSE, num |-> SumSeq(prod),
              den |-> SumSeq(sq)]

\* an attribute read on None finds the attribute
NoneHasData(bkg) == TRUE

\* line 1726: selected_bkg.data is an attribute of a model, not of None
HasData(bkg) == bkg # NoBkg

\* line 1726: background + selected_bkg.data*scale
AddScaled(b, data, s) ==
    [num |-> b.num * s.den + data * s.num * b.den, den |-> b.den * s.den]

InitDriver ==
    /\ CallIdle
    /\ SampleIdle
    /\ ColumnsIdle
    /\ ExtIdle
    /\ znodes = <<>>
    /\ maxiter = 1
    /\ upper_clip = 1
    /\ lower_clip = 1
    /\ mask = <<>>
    /\ new_mask = <<>>
    /\ coeff = Unbound
    /\ fit_on = <<>>
    /\ niter = 0
    /\ nfits = 0
    /\ fit_pc = "idle"
    /\ fit_ret = [background_data |-> Unbound, mask |-> <<>>]
    /\ logtable \in LogTables
    /\ database \in Databases
    /\ saved_bkg_lst = <<>>
    /\ extracted_fileid_lst = <<>>
    /\ ilog = 1
    /\ ifib = 0
    /\ selected_bkg = NoBkg
    /\ find_background = FALSE
    /\ brt_scale = UnboundScale
    /\ background = [num |-> 0, den |-> 1]
    /\ subtracted = <<>>
    /\ written = <<>>
    /\ unmatched = {}
    /\ drv_pc = "first"
    /\ drv_exc = None
    /\ lookups = <<>>

\* the loop of line 1208 stops after its first frame
FirstPassEndsEarly(i, log) == i > 1

\* line 1208: `for logitem in logtable` is exhausted
FirstPassEnds(i, log) == i > Len(log)

\* lines 1208-1237: the first pass leaves the frame out
DrvFirstSkip ==
    /\ drv_pc = "first"
    /\ ~FirstPassEnds(ilog, logtable)
    /\ FirstPassSkips(logtable[ilog])
    /\ ilog' = ilog + 1
    /\ UNCHANGED <<lookups, logtable, database, saved_bkg_lst,
                   extracted_fileid_lst,
                   ifib, selected_bkg, find_background, brt_scale, background,
                   subtracted, written, unmatched, drv_pc, drv_exc>>
    /\ UNCHANGED <<fitVars, callVars, samVars, colVars, extVars>>

\* lines 1239-1497: the first pass extracts a single-object frame
DrvFirstExtract ==
    /\ drv_pc = "first"
    /\ ~FirstPassEnds(ilog, logtable)
    /\ ~FirstPassSkips(logtable[ilog])
    /\ saved_bkg_lst' = Append(saved_bkg_lst, BackgroundLight(logtable[ilog]))
    /\ written' = Append(written, logtable[ilog].fileid)
    /\ extracted_fileid_lst' =
           Append(extracted_fileid_lst, logtable[ilog].fileid)
    /\ ilog' = ilog + 1
    /\ UNCHANGED <<lookups, logtable, database, ifib, selected_bkg,
                   find_background, brt_scale, background, subtracted,
                   unmatched, drv_pc, drv_exc>>
    /\ UNCHANGED <<fitVars, callVars, samVars, colVars, extVars>>

\* line 1208: the first loop is exhausted, the second starts (line 1501)
DrvFirstDone ==
    /\ drv_pc = "first"
    /\ FirstPassEnds(ilog, logtable)
    /\ ilog' = 1
    /\ drv_pc' = "second"
    /\ UNCHANGED <<lookups, logtable, database, saved_bkg_lst,
                   extracted_fileid_lst,
                   ifib, selected_bkg, find_background, brt_scale, background,
                   subtracted, written, unmatched, drv_exc>>
    /\ UNCHANGED <<fitVars, callVars, samVars, colVars, extVars>>

\* lines 1501-1530: the second pass leaves the frame out
DrvSecondSkip ==
    /\ drv_pc = "second"
    /\ ilog <= Len(logtable)
    /\ SecondPassSkips(logtable[ilog], extracted_fileid_lst)
    /\ ilog' = ilog + 1
    /\ UNCHANGED <<lookups, logtable, database, saved_bkg_lst,
                   extracted_fileid_lst,
                   ifib, selected_bkg, find_background, brt_scale, background,
                   subtracted, written, unmatched, drv_pc, drv_exc>>
    /\ UNCHANGED <<fitVars, callVars, samVars, colVars, extVars>>

\* lines 1532-1655: the frame is read and its background starts at zero
DrvSecondStart ==
    /\ drv_pc = "second"
    /\ ilog <= Len(logtable)
    /\ ~SecondPassSkips(logtable[ilog], extracted_fileid_lst)
    /\ background' = [num |-> 0, den |-> 1]
    /\ ifib' = 1
    /\ drv_pc' = "fiber"
    /\ UNCHANGED <<lookups, logtable, database, saved_bkg_lst,
                   extracted_fileid_lst,
                   ilog, selected_bkg, find_background, brt_scale, subtracted,
                   written, unmatched, drv_exc>>
    /\ UNCHANGED <<fitVars, callVars, samVars, colVars, extVars>>

\* the archive is looked up whatever the session gave
AlwaysArchive(best) == TRUE

\* line 1688: `if selected_bkg is None`
NeedsArchive(best) == best = NoBkg

\* lines 1656-1710: the model of the fiber is looked up, in the session
\* first and in the archive if the session has none
DrvSelect ==
    /\ drv_pc = "fiber"
    /\ ifib <= Len(get_fiberobj_lst(logtable[ilog].objects))
    /\ LET fo == get_fiberobj_lst(logtable[ilog].objects)[ifib]
           fiber == FiberName(fo.ifiber)
           objtype == ObjType(fo.objname)
           call(fn, res) == [fn |-> fn, fileid |-> logtable[ilog].fileid,
                             fiber |-> fiber, found |-> res # NoBkg]
       IN  \E best \in find_best_background(saved_bkg_lst, fiber, objtype,
                                            logtable[ilog].time) :
               IF NeedsArchive(best)
               THEN \E arch \in select_background_from_database(
                                    database, fiber, objtype) :
                        /\ selected_bkg' = arch
                        /\ find_background' = (arch # NoBkg)
                        /\ unmatched' = IF arch = NoBkg
                                        THEN unmatched \cup {logtable[ilog].fileid}
                                        ELSE unmatched
                        /\ lookups' = lookups \o
                               <<call("find_best_background", best),
                                 call("select_background_from_database", arch)>>
               ELSE /\ selected_bkg' = best
                    /\ find_background' = TRUE
                    /\ UNCHANGED unmatched
                    /\ lookups' = Append(lookups,
                                         call("find_best_background", best))
    /\ drv_pc' = "scale"
    /\ UNCHANGED <<logtable, database, saved_bkg_lst, extracted_fileid_lst,
                   ilog, ifib, brt_scale, background, subtracted, written,
                   drv_exc>>
    /\ UNCHANGED <<fitVars, callVars, samVars, colVars, extVars>>

\* lines 1712-1724: the scale of the model; '{:6.3f}'.format raises
\* TypeError on a scale that is None
DrvScale ==
    /\ drv_pc = "scale"
    /\ IF find_background
       THEN LET s == find_brightness_scale(logtable[ilog].prof,
                                           selected_bkg.prof)
            IN  /\ brt_scale' = s
                /\ IF s.none
                   THEN /\ drv_pc' = "raised"
                        /\ drv_exc' = "TypeError"
                   ELSE /\ drv_pc' = "add"
                        /\ UNCHANGED drv_exc
       ELSE /\ drv_pc' = "add"
            /\ UNCHANGED <<brt_scale, drv_exc>>
    /\ UNCHANGED <<lookups, logtable, database, saved_bkg_lst,
                   extracted_fileid_lst,
                   ilog, ifib, selected_bkg, find_background, background,
                   subtracted, written, unmatched>>
    /\ UNCHANGED <<fitVars, callVars, samVars, colVars, extVars>>

\* the product is written into the map of the model itself
StoredScaledInPlace(saved, bkg, s) ==
    [k \in 1..Len(saved) |->
        IF saved[k] = bkg
        THEN [bkg EXCEPT !.data = (bkg.data * s.num) \div s.den]
        ELSE saved[k]]

\* line 1726: selected_bkg.data*scale and the sum are new arrays, the models
\* of saved_bkg_lst stay as they are
StoredAfterAdd(saved, bkg, s) == saved

\* line 1726: the scaled model is added to the background of the frame
DrvAdd ==
    /\ drv_pc = "add"
    /\ IF ~HasData(selected_bkg)
       THEN /\ drv_pc' = "raised"
            /\ drv_exc' = "AttributeError"
            /\ UNCHANGED <<background, ifib, saved_bkg_lst>>
       ELSE IF ~brt_scale.bound
       THEN /\ drv_pc' = "raised"
            /\ drv_exc' = "UnboundLocalError"
            /\ UNCHANGED <<background, ifib, saved_bkg_lst>>
       ELSE IF brt_scale.none
       THEN /\ drv_pc' = "raised"
            /\ drv_exc' = "TypeError"
            /\ UNCHANGED <<background, ifib, saved_bkg_lst>>
       ELSE /\ background' = AddScaled(background, selected_bkg.data, brt_scale)
            /\ saved_bkg_lst' = StoredAfterAdd(saved_bkg_lst, selected_bkg,
                                               brt_scale)
            /\ ifib' = ifib + 1
            /\ drv_pc' = "fiber"
            /\ UNCHANGED drv_exc
    /\ UNCHANGED <<lookups, logtable, database, extracted_fileid_lst,
                   ilog, selected_bkg, find_background, brt_scale, subtracted,
                   written, unmatched>>
    /\ UNCHANGED <<fitVars, callVars, samVars, colVars, extVars>>

\* lines 1728-1895: the background is subtracted (line 1750), the spectra
\* are extracted and written (line 1892)
DrvExtract ==
    /\ drv_pc = "fiber"
    /\ ifib > Len(get_fiberobj_lst(logtable[ilog].objects))
    /\ subtracted' = Append(subtracted, [fileid |-> logtable[ilog].fileid,
                                         background |-> background])
    /\ written' = Append(written, logtable[ilog].fileid)
    /\ ilog' = ilog + 1
    /\ drv_pc' = "second"
    /\ UNCHANGED <<lookups, logtable, database, saved_bkg_lst,
                   extracted_fileid_lst,
                   ifib, selected_bkg, find_background, brt_scale, background,
                   unmatched, drv_exc>>
    /\ UNCHANGED <<fitVars, callVars, samVars, colVars, extVars>>

\* line 1501: the second loop is exhausted
DrvSecondDone ==
    /\ drv_pc = "second"
    /\ ilog > Len(logtable)
    /\ drv_pc' = "done"
    /\ UNCHANGED <<lookups, logtable, database, saved_bkg_lst,
                   extracted_fileid_lst,
                   ilog, ifib, selected_bkg, find_background, brt_scale,
                   background, subtracted, written, unmatched, drv_exc>>
    /\ UNCHANGED <<fitVars, callVars, samVars, colVars, extVars>>

NextDriver ==
    \/ DrvFirstSkip
    \/ DrvFirstExtract
    \/ DrvFirstDone
    \/ DrvSecondSkip
    \/ DrvSecondStart
    \/ DrvSelect
    \/ DrvScale
    \/ DrvAdd
    \/ DrvExtract
    \/ DrvSecondDone

SpecDriver == InitDriver /\ [][NextDriver]_vars

(***************************************************************************)
(* Claims on the second extraction pass.                                   *)
(***************************************************************************)

\* C8: a frame of the second pass for which some fiber finds a model neither
\* in the session nor in the archive fails at its background step: its 1-D
\* spectrum is never written, no background is subtracted from it, and the
\* run does not go on past the fiber.
C8_NoModelFrameFails ==
    \A f \in unmatched :
        /\ f \notin RangeOf(written)
        /\ \A k \in 1..Len(subtracted) : subtracted[k].fileid # f
        /\ logtable[ilog].fileid = f
        /\ drv_pc \in {"scale", "add", "raised"}
        /\ drv_pc = "raised" => drv_exc = "AttributeError"

\* the second fiber of a frame found no model after the first fiber left its
\* model and scale behind, and the run has ended on it
C8_Witness ==
    /\ drv_pc = "raised"
    /\ drv_exc = "AttributeError"
    /\ ifib = 2
    /\ logtable[ilog].fileid \in unmatched
    /\ brt_scale.bound
    /\ background.num > 0

\* C9: when find_brightness_scale rejects the candidate (its result is
\* None), the driver checks the result before using it: no statement raises
\* on the None scale, and the candidate is not added to the background.
C9_RejectedScaleIsChecked ==
    (brt_scale.bound /\ brt_scale.none) =>
        /\ drv_exc = None
        /\ drv_pc # "raised"

\* C27: in each iteration of fit_background the residuals are evaluated for
\* all the nodes, the rejected ones included, sigma is the standard
\* deviation of the residuals of the accepted nodes only, and the new
\* accepted set is exactly the nodes with
\* -lower_clip*sigma < residual < upper_clip*sigma, both bounds strict.
\* With d = coeff.den and n accepted nodes, q[i] = n*d*residual[i] and
\* v = (n*d*sigma)^2.
C27_ClipOverAllNodes ==
    nfits > 0 =>
        LET acc == {i \in DOMAIN znodes : fit_on[i]}
            n == Cardinality(acc)
            dres == [i \in DOMAIN znodes |-> coeff.den * znodes[i] - coeff.num]
            racc == BoolIndex(dres, fit_on)
            v == n * SumSqSeq(racc) - SumSeq(racc) * SumSeq(racc)
            q == [i \in DOMAIN znodes |-> n * dres[i]]
        IN  /\ DOMAIN new_mask = DOMAIN znodes
            /\ \A i \in DOMAIN znodes :
                   new_mask[i] <=>
                       /\ n > 0
                       /\ q[i] >= 0 => q[i] * q[i] < upper_clip * upper_clip * v
                       /\ q[i] <= 0 => q[i] * q[i] < lower_clip * lower_clip * v

\* a later iteration has evaluated a node an earlier one had rejected, and
\* has kept one of its accepted nodes and rejected another
C27_Witness ==
    /\ nfits >= 2
    /\ \E i \in DOMAIN znodes : ~fit_on[i]
    /\ \E i \in DOMAIN znodes : fit_on[i] /\ ~new_mask[i]
    /\ \E i \in DOMAIN znodes : fit_on[i] /\ new_mask[i]

(***************************************************************************)
(* The arrays of a call of correct_background or fit_background: which     *)
(* statements build a new array, which bind a name to an array that exists *)
(* and which write into an array in place.  An array is known by its       *)
(* address in `heap`; a name holds an address.                             *)
(***************************************************************************)

\* the counts of a pixel
PixVals == {-1, 10, 100}

\* data.shape of the frames: rows 0..2, columns 0..1
MemRows == 0..2

MemCols == 0..1

Images == [MemRows -> [MemCols -> PixVals]]

\* the mask of the frame: no flag, a saturated pixel (4), a bad pixel (2)
MaskImages ==
    {[y \in MemRows |-> [x \in MemCols |-> 0]],
     [y \in MemRows |-> [x \in MemCols |-> IF y = 1 /\ x = 0 THEN 4 ELSE 0]],
     [y \in MemRows |-> [x \in MemCols |-> IF y = 1 /\ x = 1 THEN 2 ELSE 0]]}

\* the (x, y) that lines 69-132 leave in inter_aper, column after column
NodeCands ==
    {<<>>,
     <<[x |-> 0, y |-> 1]>>,
     <<[x |-> 0, y |-> 1], [x |-> 1, y |-> 1]>>}

\* the xnodes, ynodes, znodes of a caller of fit_background
FitArgs ==
    ({<<0, 1>>} \X {<<1, 1>>} \X [1..2 -> PixVals])
    \cup {<<<<0, 1, 1>>, <<1, 1, 2>>, <<10, -1, 100>>>>}

\* scipy mode='reflect': the index of the pixel a window reads at i
Reflect(i, n) == IF i < 0 THEN -i - 1 ELSE IF i > n - 1 THEN 2 * n - 1 - i ELSE i

\* the median of the 3x3 window around (y, x)
Median9(img, y, x) ==
    LET nr == Cardinality(DOMAIN img)
        nc == Cardinality(DOMAIN img[0])
        win == [k \in 1..9 |->
                   img[Reflect(y + ((k - 1) \div 3) - 1, nr)]
                      [Reflect(x + ((k - 1) % 3) - 1, nc)]]
    IN  CHOOSE v \in {win[k] : k \in 1..9} :
            /\ Cardinality({k \in 1..9 : win[k] < v}) <= 4
            /\ Cardinality({k \in 1..9 : win[k] <= v}) >= 5

\* line 62: median_filter(data, size=(3,3), mode='reflect')
median_filter(img) ==
    [y \in DOMAIN img |-> [x \in DOMAIN img[y] |-> Median9(img, y, x)]]

\* the address of the next new array
Fresh(hp) == Len(hp) + 1

\* the array at address a becomes v; a new array when a is Fresh
Store(hp, a, v) == IF a = Fresh(hp) THEN Append(hp, v) ELSE [hp EXCEPT ![a] = v]

\* the filter writes its output into its input
MedianFilterInPlace(hp, env) == env.data

\* line 62: median_filter is called without `output`, its result is a new array
MedianFilterOut(hp, env) == Fresh(hp)

\* line 60 on the whole frame
DataMaskImage(m, blk) ==
    [y \in DOMAIN m |-> [x \in DOMAIN m[y] |-> And16(Int16(m[y][x]), blk) > 0]]

\* np.min of the values a boolean mask selects
MinWhere(zs, pm) ==
    CHOOSE v \in {zs[i] : i \in {j \in 1..Len(zs) : pm[j]}} :
        \A i \in 1..Len(zs) : pm[i] => v <= zs[i]

InitMemory ==
    /\ CallIdle
    /\ SampleIdle
    /\ DriverIdle
    /\ ColumnsIdle
    /\ FitIdle
    /\ ScaleIdle
    /\ FlatsIdle
    /\ mem_entry \in {"correct_background", "fit_background"}
    /\ IF mem_entry = "correct_background"
       THEN /\ heap \in {<<d, m>> : d \in Images, m \in MaskImages}
            /\ mem_scale \in {"linear", "log"}
            /\ mem_cand \in NodeCands
            /\ cb_env = [NoNames EXCEPT !.data = 1, !.mask = 2]
            /\ fb_env = NoFitNames
            /\ mem_pc = "data_mask"
       ELSE /\ heap \in FitArgs
            /\ mem_scale = "linear"
            /\ mem_cand = <<>>
            /\ cb_env = NoNames
            /\ fb_env = [NoFitNames EXCEPT !.xnodes = 1, !.ynodes = 2,
                                           !.znodes = 3]
            /\ mem_pc = "normalize"
    /\ heap0 = heap
    /\ mem_exc = None

\* line 60: data_mask = (np.int16(mask) & block_mask > 0), with the default
\* block_mask
MemDataMask ==
    /\ mem_pc = "data_mask"
    /\ heap' = Append(heap, DataMaskImage(heap[cb_env.mask], 4))
    /\ cb_env' = [cb_env EXCEPT !.data_mask = Fresh(heap)]
    /\ mem_pc' = "median"
    /\ UNCHANGED <<heap0, mem_entry, mem_scale, mem_cand, fb_env, mem_exc>>
    /\ UNCHANGED <<fitVars, callVars, samVars, drvVars, colVars, sclVars,
                   flatVars>>

\* line 62: meddata = median_filter(data, ...)
MemMedian ==
    /\ mem_pc = "median"
    /\ LET a == MedianFilterOut(heap, cb_env)
       IN  /\ heap' = Store(heap, a, median_filter(heap[cb_env.data]))
           /\ cb_env' = [cb_env EXCEPT !.meddata = a]
    /\ mem_pc' = "scan"
    /\ UNCHANGED <<heap0, mem_entry, mem_scale, mem_cand, fb_env, mem_exc>>
    /\ UNCHANGED <<fitVars, callVars, samVars, drvVars, colVars, sclVars,
                   flatVars>>

\* lines 64-145: the scan of the columns.  Line 131 binds the name `mask`
\* to the flags of the last column's rows; lines 134-139 collect the nodes
\* off data_mask; lines 143-145 build xnodes, ynodes, znodes
MemScan ==
    /\ mem_pc = "scan"
    /\ LET dm == heap[cb_env.data_mask]
           med == heap[cb_env.meddata]
           last == SelectSeq(mem_cand, LAMBDA c : c.x = 1)
           nodes == SelectSeq(mem_cand, LAMBDA c : ~dm[c.y][c.x])
           n == Len(nodes)
           a == Fresh(heap)
       IN  /\ heap' = heap \o <<[i \in 1..Len(last) |-> TRUE],
                                [i \in 1..n |-> nodes[i].x],
                                [i \in 1..n |-> nodes[i].y],
                                [i \in 1..n |-> med[nodes[i].y][nodes[i].x]]>>
           /\ cb_env' = [cb_env EXCEPT !.mask = a, !.xnodes = a + 1,
                                       !.ynodes = a + 2, !.znodes = a + 3]
    /\ mem_pc' = "log"
    /\ UNCHANGED <<heap0, mem_entry, mem_scale, mem_cand, fb_env, mem_exc>>
    /\ UNCHANGED <<fitVars, callVars, samVars, drvVars, colVars, sclVars,
                   flatVars>>

\* lines 149-152: pmask is a new array, line 151 writes into the array
\* named znodes (min() of no value raises ValueError), line 152 binds
\* znodes to a new array
MemLog ==
    /\ mem_pc = "log"
    /\ IF mem_scale # "log"
       THEN /\ mem_pc' = "fit"
            /\ UNCHANGED <<heap, cb_env, mem_exc>>
       ELSE LET zs == heap[cb_env.znodes]
                pm == PositiveMask(zs)
                hp1 == Append(heap, pm)
            IN  IF \A i \in 1..Len(zs) : ~pm[i]
                THEN /\ heap' = hp1
                     /\ cb_env' = [cb_env EXCEPT !.pmask = Fresh(heap)]
                     /\ mem_pc' = "raised"
                     /\ mem_exc' = "ValueError"
                ELSE LET filled == [i \in 1..Len(zs) |->
                                       IF pm[i] THEN zs[i] ELSE MinWhere(zs, pm)]
                         hp2 == Store(hp1, cb_env.znodes, filled)
                     IN  /\ heap' = Append(hp2, [i \in 1..Len(zs) |->
                                                     Log10(filled[i])])
                         /\ cb_env' = [cb_env EXCEPT !.pmask = Fresh(heap),
                                                     !.znodes = Fresh(hp2)]
                         /\ mem_pc' = "fit"
                         /\ UNCHANGED mem_exc
    /\ UNCHANGED <<heap0, mem_entry, mem_scale, mem_cand, fb_env>>
    /\ UNCHANGED <<fitVars, callVars, samVars, drvVars, colVars, sclVars,
                   flatVars>>

\* lines 200-203: fit_background receives the arrays named xnodes, ynodes,
\* znodes
MemCallFit ==
    /\ mem_pc = "fit"
    /\ fb_env' = [NoFitNames EXCEPT !.xnodes = cb_env.xnodes,
                                    !.ynodes = cb_env.ynodes,
                                    !.znodes = cb_env.znodes]
    /\ mem_pc' = "normalize"
    /\ UNCHANGED <<heap, heap0, mem_entry, mem_scale, mem_cand, cb_env,
                   mem_exc>>
    /\ UNCHANGED <<fitVars, callVars, samVars, drvVars, colVars, sclVars,
                   flatVars>>

\* lines 345-349: xfit and yfit are new arrays, zfit is the array znodes
MemFitNormalize ==
    /\ mem_pc = "normalize"
    /\ heap' = heap \o <<[num |-> heap[fb_env.xnodes], den |-> 2],
                         [num |-> heap[fb_env.ynodes], den |-> 3]>>
    /\ fb_env' = [fb_env EXCEPT !.xfit = Fresh(heap), !.yfit = Fresh(heap) + 1,
                                !.zfit = fb_env.znodes]
    /\ mem_pc' = "loop"
    /\ UNCHANGED <<heap0, mem_entry, mem_scale, mem_cand, cb_env, mem_exc>>
    /\ UNCHANGED <<fitVars, callVars, samVars, drvVars, colVars, sclVars,
                   flatVars>>

\* lines 355-371: mask = np.ones_like(...), then each iteration builds
\* coeff, values, residuals and new_mask and binds mask to new_mask
MemFitLoop ==
    /\ mem_pc = "loop"
    /\ \E nm \in [1..Len(heap[fb_env.zfit]) -> BOOLEAN] :
           /\ heap' = heap \o <<[i \in 1..Len(heap[fb_env.zfit]) |-> TRUE],
                                [kind |-> "coeff"], nm>>
           /\ fb_env' = [fb_env EXCEPT !.coeff = Fresh(heap) + 1,
                                       !.mask = Fresh(heap) + 2]
    /\ mem_pc' = "evaluate"
    /\ UNCHANGED <<heap0, mem_entry, mem_scale, mem_cand, cb_env, mem_exc>>
    /\ UNCHANGED <<fitVars, callVars, samVars, drvVars, colVars, sclVars,
                   flatVars>>

\* lines 377-379 and 200-203: the surface is a new array; the caller binds
\* background_data and fitmask to the returned arrays
MemFitReturn ==
    /\ mem_pc = "evaluate"
    /\ heap' = Append(heap, [kind |-> "surface"])
    /\ fb_env' = [fb_env EXCEPT !.background_data = Fresh(heap)]
    /\ IF mem_entry = "fit_background"
       THEN /\ mem_pc' = "returned"
            /\ UNCHANGED cb_env
       ELSE /\ mem_pc' = "unlog"
            /\ cb_env' = [cb_env EXCEPT !.background_data = Fresh(heap),
                                        !.fitmask = fb_env.mask]
    /\ UNCHANGED <<heap0, mem_entry, mem_scale, mem_cand, mem_exc>>
    /\ UNCHANGED <<fitVars, callVars, samVars, drvVars, colVars, sclVars,
                   flatVars>>

\* lines 209-324: np.power and the subtraction of line 218 build new arrays;
\* the figure only reads
MemFinish ==
    /\ mem_pc = "unlog"
    /\ LET hp1 == IF mem_scale = "log"
                  THEN Append(heap, [kind |-> "power"]) ELSE heap
       IN  /\ heap' = Append(hp1, [kind |-> "residual"])
           /\ cb_env' = [cb_env EXCEPT
                            !.background_data =
                                IF mem_scale = "log" THEN Fresh(heap) ELSE @,
                            !.residual = Fresh(hp1)]
    /\ mem_pc' = "returned"
    /\ UNCHANGED <<heap0, mem_entry, mem_scale, mem_cand, fb_env, mem_exc>>
    /\ UNCHANGED <<fitVars, callVars, samVars, drvVars, colVars, sclVars,
                   flatVars>>

NextMemory ==
    \/ MemDataMask
    \/ MemMedian
    \/ MemScan
    \/ MemLog
    \/ MemCallFit
    \/ MemFitNormalize
    \/ MemFitLoop
    \/ MemFitReturn
    \/ MemFinish

SpecMemory == InitMemory /\ [][NextMemory]_vars

\* C21: correct_background and fit_background leave their inputs unchanged:
\* at every point of a call, and so after it, every array the caller passed
\* (data and mask; xnodes, ynodes, znodes for fit_background) holds the
\* values it had at the call, for scale 'linear' and for scale 'log'.
C21_InputsUnchanged ==
    mem_pc # "idle" =>
        /\ Len(heap) >= Len(heap0)
        /\ \A a \in 1..Len(heap0) : heap[a] = heap0[a]

\* a call with scale = 'log' has returned after line 151 wrote into an array
\* that held a value that is not positive
C21_Witness ==
    /\ mem_pc = "returned"
    /\ mem_entry = "correct_background"
    /\ mem_scale = "log"
    /\ cb_env.pmask # 0
    /\ \E i \in 1..Len(heap[cb_env.pmask]) : ~heap[cb_env.pmask][i]
    /\ heap[cb_env.data] # heap[cb_env.meddata]

(***************************************************************************)
(* BackgroundLight.find_brightness_scale as a function of the two          *)
(* brightness profiles.                                                    *)
(***************************************************************************)

\* brightness profiles over the apertures 1..3, 0 where the aperture is absent
BrtProfiles == [1..3 -> 0..MaxBrt]

\* the apertures both profiles hold
CommonApertures(obs, cand) == {a \in 1..3 : obs[a] > 0 /\ cand[a] > 0}

InitScale ==
    /\ CallIdle
    /\ SampleIdle
    /\ DriverIdle
    /\ ColumnsIdle
    /\ FitIdle
    /\ MemoryIdle
    /\ FlatsIdle
    /\ obs_brt \in BrtProfiles
    /\ sel_brt \in BrtProfiles
    /\ scale_out = UnboundScale
    /\ scl_pc = "call"

\* line 1713: scale = obs_bkg_obj.find_brightness_scale(selected_bkg)
ScaleCall ==
    /\ scl_pc = "call"
    /\ scale_out' = find_brightness_scale(obs_brt, sel_brt)
    /\ scl_pc' = "returned"
    /\ UNCHANGED <<obs_brt, sel_brt>>
    /\ UNCHANGED <<fitVars, callVars, samVars, drvVars, colVars, memVars,
                   flatVars>>

NextScale == ScaleCall

SpecScale == InitScale /\ [][NextScale]_vars

\* C22: find_brightness_scale returns k whenever the observed brightness is
\* k times the candidate brightness on every aperture both profiles hold (at
\* least 2 of them), whatever the values on the apertures only one profile
\* holds; k is the ratio p / q.
C22_ScaleRecovered ==
    scl_pc = "returned" =>
        \A p, q \in 1..MaxBrt :
            (/\ Cardinality(CommonApertures(obs_brt, sel_brt)) >= 2
             /\ \A a \in CommonApertures(obs_brt, sel_brt) :
                    obs_brt[a] * q = p * sel_brt[a])
            => /\ scale_out.bound
               /\ ~scale_out.none
               /\ scale_out.num * q = p * scale_out.den

\* observed (1, 1) on the apertures 1, 2 against the candidate (2, 2, 2) on
\* the apertures 1, 2, 3: the scale is 1/2
C22_Witness ==
    /\ scl_pc = "returned"
    /\ obs_brt = <<1, 1, 0>>
    /\ sel_brt = <<2, 2, 2>>
    /\ ~scale_out.none
    /\ scale_out.num * 2 = scale_out.den

(***************************************************************************)
(* Claims on the two extraction passes.                                    *)
(***************************************************************************)

\* the fiber of the second pass that the fiber loop is at
TargetFiberObj == get_fiberobj_lst(logtable[ilog].objects)[ifib]

\* the model is one of this session: its fileid is a fileid of the log
FromSession(bkg) == bkg.fileid \in 1..Len(logtable)

\* C23: a background model that the second pass selects for a fiber, in the
\* session or in the archive, has the fiber and the object type (star, comb
\* or fp) of the target; a model of the session comes from a frame whose
\* single object, on the same fiber, is of the target's type.
C23_SelectedSameFiberAndType ==
    (drv_pc \in {"scale", "add"} /\ selected_bkg # NoBkg) =>
        LET kind(name) == IF Lower(name) = "comb" THEN "comb"
                          ELSE IF Lower(name) = "fp" THEN "fp" ELSE "star"
        IN  /\ selected_bkg.fiber = FiberName(TargetFiberObj.ifiber)
            /\ selected_bkg.objtype = kind(TargetFiberObj.objname)
            /\ FromSession(selected_bkg) =>
                   LET src == get_fiberobj_lst(
                                  logtable[selected_bkg.fileid].objects)
                   IN  /\ Len(src) = 1
                       /\ src[1].ifiber = TargetFiberObj.ifiber
                       /\ kind(src[1].objname) = kind(TargetFiberObj.objname)

\* fiber B of a star/comb frame has been given a comb model of the session
\* after fiber A was given a star model
C23_Witness ==
    /\ drv_pc = "scale"
    /\ ifib = 2
    /\ selected_bkg # NoBkg
    /\ FromSession(selected_bkg)
    /\ selected_bkg.objtype = "comb"
    /\ Lower(get_fiberobj_lst(logtable[ilog].objects)[1].objname) = "hd1"

\* the frames of the log the first pass extracts, in the order of the log
FirstPassFrames(log) == SelectSeq(log, LAMBDA item : ~FirstPassSkips(item))

\* the models of the run as lines 1354-1371 create them
CreatedModels(log) ==
    [k \in 1..Len(FirstPassFrames(log)) |->
        BackgroundLight(FirstPassFrames(log)[k])]

\* the object names of a frame that are not empty, by fiber index
Illuminated(item) == {i \in 1..Len(item.objects) : item.objects[i] # ""}

NoDuplicates(s) == \A i, j \in 1..Len(s) : s[i] = s[j] => i = j

\* C24: for each fiber of a second-pass frame the archive lookup
\* select_background_from_database is called only after find_best_background
\* on the models of the session has returned None for that fiber, and a
\* model found in the session is never replaced by an archive model.
C24_ArchiveOnlyAfterSessionMiss ==
    /\ \A k \in 1..Len(lookups) :
           lookups[k].fn = "select_background_from_database" =>
               /\ k > 1
               /\ lookups[k - 1].fn = "find_best_background"
               /\ lookups[k - 1].fileid = lookups[k].fileid
               /\ lookups[k - 1].fiber = lookups[k].fiber
               /\ ~lookups[k - 1].found
    /\ (/\ drv_pc \in {"scale", "add"}
        /\ \E m \in find_best_background(
                        saved_bkg_lst, FiberName(TargetFiberObj.ifiber),
                        ObjType(TargetFiberObj.objname), logtable[ilog].time) :
               m # NoBkg)
       => FromSession(selected_bkg)

\* the archive gave a model after the session had none, and the session gave
\* the model of another fiber
C24_Witness ==
    /\ \E k \in 1..Len(lookups) :
           /\ lookups[k].fn = "select_background_from_database"
           /\ lookups[k].found
    /\ \E k \in 1..Len(lookups) :
           /\ lookups[k].fn = "find_best_background"
           /\ lookups[k].found

\* C25: rescaling never edits a stored model: whatever frames and fibers the
\* second pass has processed, the map and the brightness profile of every
\* model of saved_bkg_lst are the ones it was created with.
C25_StoredModelsUnchanged ==
    /\ Len(saved_bkg_lst) <= Len(CreatedModels(logtable))
    /\ \A k \in 1..Len(saved_bkg_lst) :
           /\ saved_bkg_lst[k].data = CreatedModels(logtable)[k].data
           /\ saved_bkg_lst[k].prof = CreatedModels(logtable)[k].prof

\* the run has ended after a model of the session was added to a frame with
\* a scale that is not 1
C25_Witness ==
    /\ drv_pc = "done"
    /\ Len(subtracted) >= 1
    /\ FromSession(selected_bkg)
    /\ brt_scale.bound
    /\ ~brt_scale.none
    /\ brt_scale.num # brt_scale.den

\* C26: the first pass creates and appends a model at most once per log
\* entry, and only for entries with exactly one illuminated fiber whose
\* object is not bias, dark, flat or ThAr; the fiber of the model is that
\* fiber.
C26_ModelsOfSingleFiberFrames ==
    /\ NoDuplicates([k \in 1..Len(saved_bkg_lst) |-> saved_bkg_lst[k].fileid])
    /\ \A k \in 1..Len(saved_bkg_lst) :
           LET item == logtable[saved_bkg_lst[k].fileid]
           IN  /\ Cardinality(Illuminated(item)) = 1
               /\ \A i \in Illuminated(item) :
                      /\ Lower(item.objects[i]) \notin {"bias", "dark", "flat"}
                      /\ Lower4(item.objects[i]) # "thar"
                      /\ saved_bkg_lst[k].fiber = FiberName(i - 1)

\* the first pass is over and has created a model on each of the two fibers
C26_Witness ==
    /\ drv_pc = "second"
    /\ \E j, k \in 1..Len(saved_bkg_lst) :
           /\ saved_bkg_lst[j].fiber = "A"
           /\ saved_bkg_lst[k].fiber = "B"
    /\ \E i \in 1..Len(logtable) : FirstPassSkips(logtable[i])

\* C29: every model of the run is in saved_bkg_lst before the first call of
\* find_best_background: the first pass over the log is complete when the
\* second starts, so the candidates of a frame include the single-fiber
\* frames that come after it in the log.
C29_AllModelsBeforeFirstLookup ==
    /\ drv_pc = "first" => lookups = <<>>
    /\ drv_pc \in {"second", "fiber", "scale", "add", "done", "raised"} =>
           saved_bkg_lst = CreatedModels(logtable)

\* a frame has been given the model of a frame that comes later in the log
C29_Witness ==
    /\ drv_pc = "scale"
    /\ FromSession(selected_bkg)
    /\ selected_bkg.fileid > logtable[ilog].fileid

\* C30: over the two passes each fileid is background-corrected and has its
\* 1-D spectrum written at most once: a fileid of extracted_fileid_lst is
\* skipped by the second pass, and no pass takes a log entry twice.
C30_EachFrameWrittenOnce ==
    /\ NoDuplicates(written)
    /\ NoDuplicates(extracted_fileid_lst)
    /\ NoDuplicates([k \in 1..Len(subtracted) |-> subtracted[k].fileid])
    /\ \A k \in 1..Len(subtracted) :
           subtracted[k].fileid \notin RangeOf(extracted_fileid_lst)

\* the run has ended with a frame of each pass written
C30_Witness ==
    /\ drv_pc = "done"
    /\ Len(extracted_fileid_lst) >= 1
    /\ Len(subtracted) >= 1
    /\ Len(written) = Len(extracted_fileid_lst) + Len(subtracted)

(***************************************************************************)
(* reduce_doublefiber, the stage 'Mosaic Flats' (lines 513-710): what the  *)
(* six lists flat_data_lst ... flat_spec_lst hold for each fiber.  Lines   *)
(* 504-509 have filled each of them, per fiber, with a dict keyed by the   *)
(* name of the flat group.                                                 *)
(***************************************************************************)

\* the fibers, in the order of range(n_fiber)
Fibers == <<"A", "B">>

\* the names of the flat groups of the log (lines 247-257)
FlatNames == {"red", "blue", "5"}

FlatLists == {"flat_data_lst", "flat_mask_lst", "flat_norm_lst",
              "flat_dsum_lst", "flat_sens_lst", "flat_spec_lst"}

\* a dict keyed by the names of the flat groups
DictOf(names) == [kind |-> "dict", keys |-> names]

\* one image, or one table, mosaiced from the groups
CombinedOf(names) == [kind |-> "array", keys |-> names]

InitFlats ==
    /\ CallIdle
    /\ SampleIdle
    /\ DriverIdle
    /\ ColumnsIdle
    /\ FitIdle
    /\ MemoryIdle
    /\ ScaleIdle
    /\ flat_groups \in [{"A", "B"} -> (SUBSET FlatNames) \ {{}}]
    /\ flat_lsts = [l \in FlatLists |->
                       [f \in {"A", "B"} |-> DictOf(flat_groups[f])]]
    /\ master_aperset = {}
    /\ flt_ifiber = 0
    /\ flt_pc = "mosaic"
    /\ flt_exc = None

\* lines 536-563: the fiber has one flat group; the flat file is copied and
\* master_aperset[fiber] is set
FlatSingle ==
    /\ flt_pc = "mosaic"
    /\ Cardinality(flat_groups[Fibers[flt_ifiber + 1]]) = 1
    /\ master_aperset' = master_aperset \cup {Fibers[flt_ifiber + 1]}
    /\ flt_pc' = "align"
    /\ UNCHANGED <<flat_groups, flat_lsts, flt_ifiber, flt_exc>>
    /\ UNCHANGED <<fitVars, callVars, samVars, drvVars, colVars, memVars,
                   sclVars>>

\* lines 564-612: the fiber has several flat groups; they are mosaiced and
\* lines 596-601 put the results in the six lists
FlatMosaic ==
    /\ flt_pc = "mosaic"
    /\ Cardinality(flat_groups[Fibers[flt_ifiber + 1]]) # 1
    /\ master_aperset' = master_aperset \cup {Fibers[flt_ifiber + 1]}
    /\ flat_lsts' = [l \in FlatLists |->
                        [flat_lsts[l] EXCEPT ![Fibers[flt_ifiber + 1]] =
                             CombinedOf(flat_groups[Fibers[flt_ifiber + 1]])]]
    /\ flt_pc' = "align"
    /\ UNCHANGED <<flat_groups, flt_ifiber, flt_exc>>
    /\ UNCHANGED <<fitVars, callVars, samVars, drvVars, colVars, memVars,
                   sclVars>>

\* lines 614-634: the first fiber is the reference; for the others line 634
\* reads flat_spec_lst[fiber]['aperture'], a KeyError on a dict that has no
\* flat group of that name
FlatAlign ==
    /\ flt_pc = "align"
    /\ IF /\ flt_ifiber # 0
          /\ flat_lsts["flat_spec_lst"][Fibers[flt_ifiber + 1]].kind = "dict"
          /\ "aperture" \notin
                 flat_lsts["flat_spec_lst"][Fibers[flt_ifiber + 1]].keys
       THEN /\ flt_pc' = "raised"
            /\ flt_exc' = "KeyError"
            /\ UNCHANGED flt_ifiber
       ELSE /\ flt_ifiber' = flt_ifiber + 1
            /\ flt_pc' = IF flt_ifiber + 1 < Len(Fibers) THEN "mosaic"
                         ELSE "master"
            /\ UNCHANGED flt_exc
    /\ UNCHANGED <<flat_groups, flat_lsts, master_aperset>>
    /\ UNCHANGED <<fitVars, callVars, samVars, drvVars, colVars, memVars,
                   sclVars>>

\* lines 636-710: the apertures are saved and the master flat is mosaiced;
\* lines 689-701 index flat_data_lst[fiber] ... flat_sens_lst[fiber] with a
\* boolean array, a TypeError on a dict
FlatMaster ==
    /\ flt_pc = "master"
    /\ IF \E l \in FlatLists \ {"flat_spec_lst"} :
              \E f \in master_aperset : flat_lsts[l][f].kind = "dict"
       THEN /\ flt_pc' = "raised"
            /\ flt_exc' = "TypeError"
       ELSE /\ flt_pc' = "done"
            /\ UNCHANGED flt_exc
    /\ UNCHANGED <<flat_groups, flat_lsts, master_aperset, flt_ifiber>>
    /\ UNCHANGED <<fitVars, callVars, samVars, drvVars, colVars, memVars,
                   sclVars>>

NextFlats ==
    \/ FlatSingle
    \/ FlatMosaic
    \/ FlatAlign
    \/ FlatMaster

SpecFlats == InitFlats /\ [][NextFlats]_vars

\* C28: once the stage has mosaiced a fiber, whether the fiber has one flat
\* group or several, each of flat_data_lst[fiber], flat_mask_lst[fiber],
\* flat_norm_lst[fiber], flat_dsum_lst[fiber], flat_sens_lst[fiber] and
\* flat_spec_lst[fiber] holds one combined image or table, not a dict by
\* flat name, and the offset correction and the mosaic of the master flat
\* index them without an exception.
C28_FlatListsCombined ==
    /\ \A f \in master_aperset :
           \A l \in FlatLists : flat_lsts[l][f].kind = "array"
    /\ flt_exc = None

====
